---- MODULE Spec2Model ----
(***************************************************************************)
(* A model of ClaudeConnector (claude_api_connector/core/connector.py):    *)
(* the HTTP fetch path with its retry loop, the sliding-window rate-limit  *)
(* check, and batch_process with its semaphore-bounded fan-out.            *)
(*                                                                         *)
(* Coroutines are modelled as tasks with a program counter; one action is  *)
(* the code a coroutine runs between two suspension points (awaits that    *)
(* really suspend: asyncio.sleep, network I/O, the language-model call).   *)
(* time.time() is the variable now; asyncio.sleep(d) sets a wake-up time   *)
(* and the task resumes once now has reached it.                           *)
(***************************************************************************)
EXTENDS Integers, Sequences, FiniteSets, TLC

(***************************************************************************)
(* Bounds of the model.                                                    *)
(***************************************************************************)
MaxTime == 4         \* the clock (time.time(), whole seconds) is ticked up to MaxTime
MaxRequests == 3     \* session.request calls made on one connector
MaxRetriesCfg == 2   \* api_config.max_retries ranges over 0..MaxRetriesCfg
MaxQuota == 2        \* api_config.rate_limit_requests ranges over 0..MaxQuota (0: not configured)
MaxEndpoints == 3    \* endpoint configurations of one batch
MaxConcurrent == 2   \* max_concurrent ranges over 1..MaxConcurrent
MaxOps == 4          \* clear_conversation and stream_conversation calls on one connector
MaxQueries == 2      \* query_with_api_data calls on one connector
MaxProcessors == 2   \* processors registered on one connector
MaxItems == 25       \* items of the data handed to _create_enhanced_prompt
MaxMixedOps == 2     \* calls other than batch_process when the operations are mixed
MaxOverlapOps == 3   \* calls the coroutines make on the shared connector
MaxCallers == 2      \* coroutines calling stream_conversation on one connector at a time

(***************************************************************************)
(* Program constants.                                                      *)
(***************************************************************************)
DefaultRetryAfter == 60   \* response.headers.get("Retry-After", 60)
CleanupInterval == 10     \* if now - self._last_cleanup > 10
DictLimit == 20           \* list(data.items())[:20]
ListLimit == 10           \* data[:10]
StrLimit == 5000          \* str(data)[:5000]
TruncatedKey == "...truncated"   \* limited_data["...truncated"]

RetryDelays == {1, 2}          \* values of api_config.retry_delay
Windows == {2, 3}              \* values of api_config.rate_limit_window
RetryAfterHeaders == {<<>>, <<1>>, <<3>>}   \* the Retry-After header: absent, or its value
ErrorStatuses == {500, 404}    \* non-success statuses other than 401 and 429
Bodies == {"b1"}         \* response bodies
EndpointNames == <<"/a", "/b", "/c", "/d", "/e">>   \* the endpoints a batch may name
Tasks == 1..MaxEndpoints
Main == 1                      \* the task of the caller in SpecFetch

VARIABLES
    api_config,        \* self.api_config (immutable after construction)
    now,               \* time.time()
    _request_times,    \* self._request_times
    _last_cleanup,     \* self._last_cleanup
    pc,                \* per task: where the coroutine stands
    attempt,           \* per task: the loop variable of the retry loop
    wake,              \* per task: when the pending asyncio.sleep ends
    calls,             \* per task: session.request calls made by the current fetch
    lastSleep,         \* per task: the last asyncio.sleep the current fetch asked for
    lastResp,          \* per task: the last outcome of session.request in the current fetch
    result,            \* per task: what the last fetch returned or raised
    requests,          \* number of session.request calls made so far
    _data_processors,  \* self._data_processors
    bpc,               \* where batch_process stands
    endpoints,         \* batch_process: the endpoint of each configuration, in order
    max_concurrent,    \* batch_process: its argument
    semaphore,         \* batch_process: the value of asyncio.Semaphore
    results,           \* batch_process: what each fetch_single_endpoint task returned
    llm_calls,         \* the prompts passed to the language model so far
    batch_result,      \* what batch_process returned
    first_done,        \* batch_process: the task that completed first (0: none yet)
    conversation_history,  \* self.conversation_history
    spc,               \* where the caller of the public operations stands
    call,              \* the public operation in progress, or the last one
    processed_data,    \* the local processed_data of that operation
    llm_messages,      \* the messages argument of the last messages.create with history
    outcome,           \* what the last public operation returned or raised
    stages,            \* the stages the operation in progress has started, in order
    turns,             \* the turns completed since construction or the last clear
    dangling,          \* the turns since then that failed after appending their user message
    cleared_len,       \* the length of the history the last clear_conversation dropped
    ops,               \* number of public operations called so far
    cfg,               \* the APIConfig a caller constructs
    fetch_args,        \* the method and params of the fetch in progress, and the caller's mapping
    sent,              \* the requests passed to session.request so far
    prompt_data,       \* the data handed to _create_enhanced_prompt
    prompt_out,        \* what _create_enhanced_prompt returned for it
    caller_pc,         \* per calling coroutine: where its stream_conversation stands
    caller_call,       \* per calling coroutine: the arguments of its stream_conversation
    mine,              \* per calling coroutine: the messages it appended since the last clear
    clear_overlapped   \* the last clear_conversation ran while a call was in its model call

fetchVars == <<api_config, now, _request_times, _last_cleanup, pc, attempt, wake,
               calls, lastSleep, lastResp, result, requests>>
batchVars == <<bpc, endpoints, max_concurrent, semaphore, results, llm_calls,
               batch_result, first_done>>
sessionVars == <<conversation_history, spc, call, processed_data, llm_messages,
                 outcome, stages, turns, dangling, cleared_len, ops>>
callerVars == <<caller_pc, caller_call, mine, clear_overlapped>>
configVars == <<cfg, fetch_args, sent, prompt_data, prompt_out, callerVars>>
vars == <<fetchVars, _data_processors, batchVars, sessionVars, configVars>>

(***************************************************************************)
(* APIConfig (core/config.py).  present = FALSE is a connector built       *)
(* without api_config; rate_limit_requests = 0 is the None default.        *)
(***************************************************************************)
NoConfig ==
    [present |-> FALSE, max_retries |-> 0, retry_delay |-> 1,
     rate_limit_requests |-> 0, rate_limit_window |-> 2]

APIConfig ==
    { [present |-> TRUE, max_retries |-> m, retry_delay |-> d,
       rate_limit_requests |-> q, rate_limit_window |-> w] :
         m \in 0..MaxRetriesCfg, d \in RetryDelays, q \in 0..MaxQuota, w \in Windows }

NoSleep == [why |-> "none", dur |-> 0, attempt |-> 0]
NoResp == [kind |-> "none", status |-> 0, header |-> <<>>, body |-> "", read |-> "none"]
NoTaskResult == [endpoint |-> "", success |-> FALSE, data |-> <<>>, error |-> ""]
NoBatchResult ==
    [analysis |-> "", successful_endpoints |-> 0, failed_endpoints |-> 0,
     failures |-> <<>>]
NoResult == [kind |-> "none", status |-> 0, data |-> <<>>, retry_after |-> 0]

RECURSIVE Pow2(_)
Pow2(n) == IF n = 0 THEN 1 ELSE 2 * Pow2(n - 1)

\* [t for t in self._request_times if t > window_start]
Recent(times, window_start) == SelectSeq(times, LAMBDA t : t > window_start)

\* A Retry-After header holds delay-seconds or an HTTP-date; HttpDate stands
\* for a value of the second form, which int() rejects with ValueError.
HttpDate == -1

\* int(...) returns instead of raising ValueError
IntParses(header) == header = <<>> \/ header[1] # HttpDate

RetryAfterIgnoreHeader(header) == DefaultRetryAfter
\* int(response.headers.get("Retry-After", 60))
RetryAfterOf(header) == IF header = <<>> THEN DefaultRetryAfter ELSE header[1]


(***************************************************************************)
(* _check_rate_limit (connector.py 333-354), evaluated at time now.        *)
(***************************************************************************)
\* if not self.api_config.rate_limit_requests: return
RateLimitOff == api_config.rate_limit_requests = 0

\* if now - self._last_cleanup > 10
CleanupDue == now - _last_cleanup > CleanupInterval

\* self._request_times after the check
TimesAfterCheck ==
    IF ~RateLimitOff /\ CleanupDue
    THEN Recent(_request_times, now - api_config.rate_limit_window)
    ELSE _request_times

CleanupAfterCheckAlways == IF CleanupDue THEN now ELSE _last_cleanup
\* self._last_cleanup after the check
CleanupAfterCheck == IF ~RateLimitOff /\ CleanupDue THEN now ELSE _last_cleanup

\* recent_requests
RecentRequests == Recent(TimesAfterCheck, now - api_config.rate_limit_window)

SleepTimeWhenOverQuota ==
    IF RateLimitOff THEN 0
    ELSE IF Len(RecentRequests) > api_config.rate_limit_requests
         THEN LET sleep_time == RecentRequests[1] + api_config.rate_limit_window - now
              IN  IF sleep_time > 0 THEN sleep_time ELSE 0
         ELSE 0
SleepTimeFromNewest ==
    IF RateLimitOff THEN 0
    ELSE IF Len(RecentRequests) >= api_config.rate_limit_requests
         THEN LET sleep_time == RecentRequests[Len(RecentRequests)]
                                    + api_config.rate_limit_window - now
              IN  IF sleep_time > 0 THEN sleep_time ELSE 0
         ELSE 0
\* the argument of asyncio.sleep in the check; 0 when the check does not sleep
SleepTime ==
    IF RateLimitOff THEN 0
    ELSE IF Len(RecentRequests) >= api_config.rate_limit_requests
         THEN LET sleep_time == RecentRequests[1] + api_config.rate_limit_window - now
              IN  IF sleep_time > 0 THEN sleep_time ELSE 0
         ELSE 0

(***************************************************************************)
(* _fetch_api_data (connector.py 252-331).                                 *)
(***************************************************************************)
\* What session.request and the reading of the body can come to.  kind
\* "transport" is aiohttp.ClientError / asyncio.TimeoutError raised before a
\* response exists.  read tells how the body reads: "json" (it parses),
\* "text" (response.json() raises ContentTypeError / JSONDecodeError and
\* response.text() gives the body), "broken" (reading raises ClientError).
Outcomes ==
    { [kind |-> "transport", status |-> 0, header |-> <<>>, body |-> "", read |-> "none"] }
    \cup { [kind |-> "response", status |-> 429, header |-> h, body |-> "", read |-> "none"] :
             h \in RetryAfterHeaders }
    \cup { [kind |-> "response", status |-> 401, header |-> <<>>, body |-> "", read |-> "none"] }
    \cup { [kind |-> "response", status |-> s, header |-> <<>>, body |-> b, read |-> r] :
             s \in ErrorStatuses, b \in Bodies, r \in {"text", "broken"} }
    \cup { [kind |-> "response", status |-> 200, header |-> <<>>, body |-> b, read |-> r] :
             b \in Bodies, r \in {"json", "text", "broken"} }

\* for attempt in range(self.api_config.max_retries + 1)
InRange(i) == i < api_config.max_retries + 1

NextAttemptSame(i) == i
\* the loop variable of the next iteration
NextAttempt(i) == i + 1

AttemptsRemainOrLast(i) == i <= api_config.max_retries
\* if attempt < self.api_config.max_retries
AttemptsRemain(i) == i < api_config.max_retries

BackoffDelayNext(i) == api_config.retry_delay * Pow2(i + 1)
\* delay = self.api_config.retry_delay * (2 ** attempt)
BackoffDelay(i) == api_config.retry_delay * Pow2(i)

ClassifyNo401(o) ==
    IF o.status = 429 THEN "rate_limited"
    ELSE IF ~(o.status >= 200 /\ o.status < 300) THEN "not_ok"
    ELSE "ok"
ClassifyNoOkTest(o) ==
    IF o.status = 429 THEN "rate_limited"
    ELSE IF o.status = 401 THEN "auth"
    ELSE "ok"
\* The chain of tests on response.status (295, 307, 310); response.ok is
\* status < 400, which on the statuses of the model is 200 <= status < 300.
Classify(o) ==
    IF o.status = 429 THEN "rate_limited"
    ELSE IF o.status = 401 THEN "auth"
    ELSE IF ~(o.status >= 200 /\ o.status < 300) THEN "not_ok"
    ELSE "ok"


\* raise <kind>(..., status_code, response_data / retry_after)
Raised(kind, status, data, retry_after) ==
    [pc |-> "returned", dur |-> 0,
     result |-> [kind |-> kind, status |-> status, data |-> data, retry_after |-> retry_after]]

\* return <data>
Returned(data) ==
    [pc |-> "returned", dur |-> 0,
     result |-> [kind |-> "data", status |-> 200, data |-> data, retry_after |-> 0]]

\* await asyncio.sleep(dur), the fetch going on afterwards
Sleeping(why, dur) == [pc |-> why, dur |-> dur, result |-> NoResult]

\* except (aiohttp.ClientError, asyncio.TimeoutError), in iteration i (325-331)
OnClientError(i) ==
    IF AttemptsRemain(i)
    THEN Sleeping("backoff", BackoffDelay(i))
    ELSE Raised("APIConnectionError", 0, <<>>, 0)

OnParseErrorRetry(i, o) == OnClientError(i)
\* except (json.JSONDecodeError, aiohttp.ContentTypeError): the text is
\* read and returned as {"raw_text": text_data} (321-323)
OnParseError(i, o) == Returned(<<"raw_text", o.body>>)

\* the body of "async with session.request(...) as response", in iteration i (295-323)
OnResponse(i, o) ==
    LET class == Classify(o) IN
    IF class = "rate_limited"
    THEN IF ~IntParses(o.header)
         THEN Raised("ValueError", 0, <<>>, 0)
         ELSE IF AttemptsRemain(i)
         THEN Sleeping("sleep429", RetryAfterOf(o.header))
         ELSE Raised("RateLimitError", 0, <<>>, RetryAfterOf(o.header))
    ELSE IF class = "auth"
    THEN Raised("AuthenticationError", 0, <<>>, 0)
    ELSE IF class = "not_ok"
    THEN IF o.read = "broken"
         THEN OnClientError(i)
         ELSE Raised("APIConnectionError", o.status, <<o.body>>, 0)
    ELSE IF o.read = "json" THEN Returned(<<o.body>>)
    ELSE IF o.read = "text" THEN OnParseError(i, o)
    ELSE OnClientError(i)

\* the fetch of task t enters the retry loop with loop variable i: it calls
\* session.request, or leaves the loop when range() is used up
EnterIteration(t, i) ==
    /\ attempt' = [attempt EXCEPT ![t] = i]
    /\ IF InRange(i)
       THEN /\ pc' = [pc EXCEPT ![t] = "request"]
            /\ calls' = [calls EXCEPT ![t] = @ + 1]
            /\ requests' = requests + 1
            /\ result' = [result EXCEPT ![t] = NoResult]
       ELSE /\ pc' = [pc EXCEPT ![t] = "returned"]
            /\ UNCHANGED <<calls, requests>>
            /\ result' = [result EXCEPT ![t] =
                              [kind |-> "fell_through", status |-> 0, data |-> <<>>,
                               retry_after |-> 0]]

\* _fetch_api_data is called by task t and runs up to its first suspension
ConfigNeverMissing == FALSE
\* if not self.api_config (259)
ConfigMissing == ~api_config.present

FetchBegin(t) ==
    /\ lastResp' = [lastResp EXCEPT ![t] = NoResp]
    /\ UNCHANGED <<api_config, now>>
    /\ IF ConfigMissing
       THEN /\ pc' = [pc EXCEPT ![t] = "returned"]
            /\ result' = [result EXCEPT ![t] =
                              Raised("APIConnectionError", 0, <<>>, 0).result]
            /\ attempt' = [attempt EXCEPT ![t] = 0]
            /\ calls' = [calls EXCEPT ![t] = 0]
            /\ lastSleep' = [lastSleep EXCEPT ![t] = NoSleep]
            /\ UNCHANGED <<_request_times, _last_cleanup, wake, requests>>
       ELSE /\ _request_times' = TimesAfterCheck
            /\ _last_cleanup' = CleanupAfterCheck
            /\ IF SleepTime > 0
               THEN /\ pc' = [pc EXCEPT ![t] = "rl_sleep"]
                    /\ wake' = [wake EXCEPT ![t] = now + SleepTime]
                    /\ lastSleep' = [lastSleep EXCEPT ![t] =
                           [why |-> "rl_sleep", dur |-> SleepTime, attempt |-> 0]]
                    /\ attempt' = [attempt EXCEPT ![t] = 0]
                    /\ calls' = [calls EXCEPT ![t] = 0]
                    /\ result' = [result EXCEPT ![t] = NoResult]
                    /\ requests' = requests
               ELSE /\ lastSleep' = [lastSleep EXCEPT ![t] = NoSleep]
                    /\ wake' = wake
                    /\ calls' = [calls EXCEPT ![t] = IF InRange(0) THEN 1 ELSE 0]
                    /\ requests' = IF InRange(0) THEN requests + 1 ELSE requests
                    /\ attempt' = [attempt EXCEPT ![t] = 0]
                    /\ pc' = [pc EXCEPT ![t] = IF InRange(0) THEN "request" ELSE "returned"]
                    /\ result' = [result EXCEPT ![t] =
                          IF InRange(0) THEN NoResult
                          ELSE [kind |-> "fell_through", status |-> 0, data |-> <<>>,
                                retry_after |-> 0]]

SleepOverAtOnce(t) == TRUE
\* await asyncio.sleep(...) of task t returns
SleepOver(t) == now >= wake[t]

\* the sleep of _check_rate_limit is over: the fetch goes on to its first attempt
WakeRateLimit(t) ==
    /\ pc[t] = "rl_sleep"
    /\ SleepOver(t)
    /\ EnterIteration(t, 0)
    /\ UNCHANGED <<api_config, now, _request_times, _last_cleanup, wake, lastSleep,
                   lastResp, _data_processors, batchVars, sessionVars>>

\* the sleep after a 429 or a transport failure is over: next iteration
WakeRetry(t) ==
    /\ pc[t] \in {"sleep429", "backoff"}
    /\ SleepOver(t)
    /\ EnterIteration(t, NextAttempt(attempt[t]))
    /\ UNCHANGED <<api_config, now, _request_times, _last_cleanup, wake, lastSleep,
                   lastResp, _data_processors, batchVars, sessionVars>>

\* session.request of task t comes to outcome o; the code runs on to the
\* next suspension, return or raise
Respond(t, outcomes) ==
    /\ pc[t] = "request"
    /\ \E o \in outcomes :
         LET step == IF o.kind = "transport"
                     THEN OnClientError(attempt[t])
                     ELSE OnResponse(attempt[t], o)
         IN  /\ _request_times' = IF o.kind = "response"
                                  THEN Append(_request_times, now)
                                  ELSE _request_times
             /\ lastResp' = [lastResp EXCEPT ![t] =
                    [kind |-> o.kind, status |-> o.status, header |-> o.header,
                     body |-> o.body, read |-> o.read]]
             /\ pc' = [pc EXCEPT ![t] = step.pc]
             /\ result' = [result EXCEPT ![t] = step.result]
             /\ IF step.pc = "returned"
                THEN UNCHANGED <<wake, lastSleep>>
                ELSE /\ wake' = [wake EXCEPT ![t] = now + step.dur]
                     /\ lastSleep' = [lastSleep EXCEPT ![t] =
                            [why |-> step.pc, dur |-> step.dur,
                             attempt |-> attempt[t]]]
    /\ UNCHANGED <<api_config, now, _last_cleanup, attempt, calls, requests,
                   _data_processors, batchVars, sessionVars, configVars>>

(***************************************************************************)
(* The clock.                                                              *)
(***************************************************************************)
Sleepers == {t \in Tasks : pc[t] \in {"rl_sleep", "sleep429", "backoff"} /\ wake[t] > now}

Earliest(S) == CHOOSE x \in S : \A y \in S : x <= y

\* time passes while a request is in flight, or between the end of a fetch
\* and what its caller does next
Tick ==
    /\ now < MaxTime
    /\ \/ \E t \in Tasks : pc[t] = "request"
       \/ requests < MaxRequests /\ \E t \in Tasks : pc[t] = "returned"
    /\ now' = now + 1
    /\ UNCHANGED <<api_config, _request_times, _last_cleanup, pc, attempt, wake, calls,
                   lastSleep, lastResp, result, requests, _data_processors, batchVars, sessionVars, configVars>>

\* time passes until the first pending sleep ends
SleepElapse ==
    /\ Sleepers # {}
    /\ now' = Earliest({wake[t] : t \in Sleepers})
    /\ UNCHANGED <<api_config, _request_times, _last_cleanup, pc, attempt, wake, calls,
                   lastSleep, lastResp, result, requests, _data_processors, batchVars, sessionVars, configVars>>

(***************************************************************************)
(* Fetches issued one after another on one connector.                      *)
(***************************************************************************)
InitConnector ==
    /\ api_config \in APIConfig \cup {NoConfig}
    /\ now = 0
    /\ _request_times = <<>>
    /\ _last_cleanup = 0
    /\ pc = [t \in Tasks |-> "idle"]
    /\ attempt = [t \in Tasks |-> 0]
    /\ wake = [t \in Tasks |-> 0]
    /\ calls = [t \in Tasks |-> 0]
    /\ lastSleep = [t \in Tasks |-> NoSleep]
    /\ lastResp = [t \in Tasks |-> NoResp]
    /\ result = [t \in Tasks |-> NoResult]
    /\ requests = 0

InitBatchIdle ==
    /\ bpc = "none"
    /\ endpoints = <<>>
    /\ max_concurrent = 0
    /\ semaphore = 0
    /\ results = [t \in Tasks |-> NoTaskResult]
    /\ llm_calls = <<>>
    /\ batch_result = NoBatchResult
    /\ first_done = 0

NoCall == [op |-> "none", prompt |-> "", endpoint |-> FALSE, llm_before |-> 0,
           history |-> <<>>, processors |-> <<>>]
NoProcessed == [ok |-> TRUE, val |-> <<>>, invoked |-> <<>>]
NoOutcome == [op |-> "none", kind |-> "none", conversation_length |-> 0, response |-> ""]

NoAPIConfig ==
    [state |-> "none", base_url |-> "", auth_type |-> "", api_key |-> "",
     auth_header |-> "", auth_param |-> "", headers |-> <<>>]
NoArgs == [method |-> "", params |-> <<>>, request_params |-> <<>>, caller_params |-> <<>>]
NoData == [type |-> "none", items |-> <<>>]
NoPrompt == [text |-> "", embedded |-> <<>>, more |-> 0]

Callers == 1..MaxCallers

NoCallerCall == [prompt |-> "", endpoint |-> FALSE]

InitConfigIdle ==
    /\ caller_pc = [c \in Callers |-> "idle"]
    /\ caller_call = [c \in Callers |-> NoCallerCall]
    /\ mine = [c \in Callers |-> <<>>]
    /\ clear_overlapped = FALSE
    /\ cfg = NoAPIConfig
    /\ fetch_args = NoArgs
    /\ sent = <<>>
    /\ prompt_data = NoData
    /\ prompt_out = NoPrompt

InitSessionIdle ==
    /\ conversation_history = <<>>
    /\ spc = "idle"
    /\ call = NoCall
    /\ processed_data = NoProcessed
    /\ llm_messages = <<>>
    /\ outcome = NoOutcome
    /\ stages = <<>>
    /\ turns = <<>>
    /\ dangling = 0
    /\ cleared_len = 0
    /\ ops = 0

InitFetch ==
    /\ InitConnector
    /\ _data_processors = <<>>
    /\ InitBatchIdle
    /\ InitSessionIdle
    /\ InitConfigIdle

\* the steps of the caller's fetch that issue a request, within the bound
FetchWakeRateLimit ==
    /\ requests < MaxRequests
    /\ WakeRateLimit(Main)
    /\ UNCHANGED configVars

FetchWakeRetry ==
    /\ requests < MaxRequests
    /\ WakeRetry(Main)
    /\ UNCHANGED configVars

\* the caller awaits _fetch_api_data, the one before having returned or raised
FetchCall ==
    /\ pc[Main] \in {"idle", "returned"}
    /\ requests < MaxRequests
    /\ FetchBegin(Main)
    /\ UNCHANGED <<_data_processors, batchVars, sessionVars, configVars>>

FetchRespond == Respond(Main, Outcomes)

NextFetch ==
    \/ Tick
    \/ SleepElapse
    \/ FetchCall
    \/ FetchRespond
    \/ FetchWakeRateLimit
    \/ FetchWakeRetry

SpecFetch == InitFetch /\ [][NextFetch]_vars

(***************************************************************************)
(* Fetches that run to their end.  A fetch is begun only when the requests *)
(* left within MaxRequests cover all the attempts it may make, and the     *)
(* server may answer a 429 with a Retry-After that is an HTTP-date.  The   *)
(* event loop ends every sleep once its time has come, and the client      *)
(* timeout (aiohttp.ClientTimeout, 269) ends every request.                *)
(***************************************************************************)
\* the configurations of these fetches: every max_retries, quota and window,
\* with one retry_delay
FairConfigs == {c \in APIConfig : c.retry_delay = 1} \cup {NoConfig}

InitFetchFair ==
    /\ InitFetch
    /\ api_config \in FairConfigs

AllOutcomes ==
    Outcomes
    \cup { [kind |-> "response", status |-> 429, header |-> <<HttpDate>>, body |-> "",
            read |-> "none"] }

FairFetchCall ==
    /\ pc[Main] \in {"idle", "returned"}
    /\ requests + api_config.max_retries + 1 <= MaxRequests
    /\ FetchBegin(Main)
    /\ UNCHANGED <<_data_processors, batchVars, sessionVars, configVars>>

FairRespond == Respond(Main, AllOutcomes)

FairWakeRateLimit == WakeRateLimit(Main) /\ UNCHANGED configVars

FairWakeRetry == WakeRetry(Main) /\ UNCHANGED configVars

NextFetchFair ==
    \/ Tick
    \/ SleepElapse
    \/ FairFetchCall
    \/ FairRespond
    \/ FairWakeRateLimit
    \/ FairWakeRetry

SpecFetchFair ==
    /\ InitFetchFair
    /\ [][NextFetchFair]_vars
    /\ WF_vars(SleepElapse)
    /\ WF_vars(FairRespond)
    /\ WF_vars(FairWakeRateLimit)
    /\ WF_vars(FairWakeRetry)


(***************************************************************************)
(* _process_data (connector.py 356-367).  Data are sequences of tags: the  *)
(* body of the response followed by the mark of each processor applied.    *)
(* Processor "strict" raises on the raw-text fallback and is the identity  *)
(* otherwise; "f" and "g" never raise.                                     *)
(***************************************************************************)
ProcessorLists == {<<>>, <<"f", "strict">>}

\* processor(processed): [ok |-> FALSE] when it raises
Apply(p, x) ==
    IF p = "strict"
    THEN IF Len(x) > 0 /\ x[1] = "raw_text"
         THEN [ok |-> FALSE, val |-> <<>>]
         ELSE [ok |-> TRUE, val |-> x]
    ELSE [ok |-> TRUE, val |-> Append(x, p)]

RECURSIVE ProcessFromReversed(_, _, _, _)
ProcessFromReversed(procs, k, processed, invoked) ==
    IF k > Len(procs) THEN [ok |-> TRUE, val |-> processed, invoked |-> invoked]
    ELSE LET p == procs[Len(procs) + 1 - k]
             r == Apply(p, processed)
         IN  IF r.ok THEN ProcessFromReversed(procs, k + 1, r.val, Append(invoked, p))
             ELSE [ok |-> FALSE, val |-> <<>>, invoked |-> Append(invoked, p)]

RECURSIVE ProcessFromSkipFailed(_, _, _, _)
ProcessFromSkipFailed(procs, k, processed, invoked) ==
    IF k > Len(procs) THEN [ok |-> TRUE, val |-> processed, invoked |-> invoked]
    ELSE LET r == Apply(procs[k], processed)
         IN  ProcessFromSkipFailed(procs, k + 1, IF r.ok THEN r.val ELSE processed,
                                   Append(invoked, procs[k]))

RECURSIVE ProcessFrom(_, _, _, _)
\* the loop of _process_data from processor number k on; invoked lists the
\* processors called so far
ProcessFrom(procs, k, processed, invoked) ==
    IF k > Len(procs) THEN [ok |-> TRUE, val |-> processed, invoked |-> invoked]
    ELSE LET r == Apply(procs[k], processed)
         IN  IF r.ok THEN ProcessFrom(procs, k + 1, r.val, Append(invoked, procs[k]))
             ELSE [ok |-> FALSE, val |-> <<>>, invoked |-> Append(invoked, procs[k])]

\* _process_data(data): ok = FALSE stands for raise DataProcessingError
_process_data(data) == ProcessFrom(_data_processors, 1, data, <<>>)

(***************************************************************************)
(* _create_enhanced_prompt (connector.py 369-400).  A value is             *)
(* [type, items]: a dict is the sequence of its <<key, value>> items in    *)
(* insertion order, a list the sequence of its elements.  The prompt is    *)
(* modelled by its parts: the caller's text, the items of limited_data     *)
(* that json.dumps renders, and the count named by the "... and N more     *)
(* items" line that follows the JSON of a list (0: no such line).          *)
(***************************************************************************)
Keys(d) == {d[i][1] : i \in 1..Len(d)}

\* d[k] = v
DictSet(d, k, v) ==
    IF k \in Keys(d)
    THEN [i \in 1..Len(d) |-> IF d[i][1] = k THEN <<k, v>> ELSE d[i]]
    ELSE Append(d, <<k, v>>)

Min(a, b) == IF a <= b THEN a ELSE b

Last(s) == s[Len(s)]

\* the data the connector embeds are JSON objects
AsDict(items) == [type |-> "dict", items |-> items]

OverLimitOrAt(n, limit) == n >= limit
\* if len(data) > 20 / if len(data) > 10
OverLimit(n, limit) == n > limit

\* the first limit items: list(data.items())[:20], data[:10], str(data)[:5000]
FirstItems(items, limit) == SubSeq(items, 1, Min(Len(items), limit))

_create_enhanced_prompt(prompt, data) ==
    LET n == Len(data.items) IN
    IF data.items = <<>>
    THEN [text |-> prompt, embedded |-> <<>>, more |-> 0]
    ELSE IF data.type = "dict"
    THEN [text |-> prompt,
          embedded |-> IF OverLimit(n, DictLimit)
                       THEN DictSet(FirstItems(data.items, DictLimit), TruncatedKey,
                                    n - DictLimit)
                       ELSE FirstItems(data.items, DictLimit),
          more |-> 0]
    ELSE IF data.type = "list"
    THEN [text |-> prompt,
          embedded |-> FirstItems(data.items, ListLimit),
          more |-> IF OverLimit(n, ListLimit) THEN n - ListLimit ELSE 0]
    ELSE [text |-> prompt, embedded |-> FirstItems(data.items, StrLimit), more |-> 0]

(***************************************************************************)
(* batch_process (connector.py 116-193).                                   *)
(***************************************************************************)
AnalysisPrompt == "analyze"

\* The lists of configurations a batch is called with: n different
\* endpoints, or n endpoints of which the last names the first once more.
EndpointLists ==
    { [i \in 1..n |-> EndpointNames[i]] : n \in 1..MaxEndpoints }
    \cup { [i \in 1..n |-> IF i = n THEN EndpointNames[1] ELSE EndpointNames[i]] :
              n \in 2..MaxEndpoints }

BatchTasks == 1..Len(endpoints)

SemaphoreAlwaysFree == TRUE
\* async with semaphore: the semaphore can be acquired
SemaphoreFree == semaphore > 0

AnySettled == \E t \in BatchTasks : pc[t] = "settled"
\* await asyncio.gather(..., return_exceptions=True) is over
AllSettled == \A t \in BatchTasks : pc[t] = "settled"

\* str(e) of what the fetch raised
ErrorText(r) == r.kind

TaskOutcomeByCompletion(t) ==
    LET e == endpoints[Cardinality({u \in BatchTasks : pc[u] = "settled"}) + 1] IN
    IF result[t].kind \in {"data", "fell_through"}
    THEN LET processed == _process_data(result[t].data)
         IN  IF processed.ok
             THEN [endpoint |-> e, success |-> TRUE,
                   data |-> processed.val, error |-> ""]
             ELSE [endpoint |-> e, success |-> FALSE,
                   data |-> <<>>, error |-> "DataProcessingError"]
    ELSE [endpoint |-> e, success |-> FALSE,
          data |-> <<>>, error |-> ErrorText(result[t])]
\* what fetch_single_endpoint returns for task t once its fetch has ended
TaskOutcome(t) ==
    IF result[t].kind \in {"data", "fell_through"}
    THEN LET processed == _process_data(result[t].data)
         IN  IF processed.ok
             THEN [endpoint |-> endpoints[t], success |-> TRUE,
                   data |-> processed.val, error |-> ""]
             ELSE [endpoint |-> endpoints[t], success |-> FALSE,
                   data |-> <<>>, error |-> "DataProcessingError"]
    ELSE [endpoint |-> endpoints[t], success |-> FALSE,
          data |-> <<>>, error |-> ErrorText(result[t])]

\* results returned by gather, in the order of the configurations
Gathered == [t \in BatchTasks |-> results[t]]

SuccessfulUnfiltered(rs) == rs
\* successful_results
Successful(rs) == SelectSeq(rs, LAMBDA r : r.success)

\* failed_results
Failed(rs) == SelectSeq(rs, LAMBDA r : ~r.success)

RECURSIVE Combine(_, _, _)
\* combined_data = {result["endpoint"]: result["data"] for result in successful_results}
Combine(rs, k, d) ==
    IF k > Len(rs) THEN d
    ELSE Combine(rs, k + 1, DictSet(d, rs[k].endpoint, rs[k].data))

combined_data == Combine(Successful(Gathered), 1, <<>>)

\* batch_process is called and creates one task per configuration
BatchCall ==
    /\ bpc = "none"
    /\ \A t \in Tasks : pc[t] = "idle"
    /\ \E eps \in EndpointLists, m \in 1..MaxConcurrent :
         /\ endpoints' = eps
         /\ max_concurrent' = m
         /\ semaphore' = m
         /\ pc' = [t \in Tasks |-> IF t <= Len(eps) THEN "waiting" ELSE "idle"]
    /\ bpc' = "gathering"
    /\ first_done' = 0
    /\ UNCHANGED <<api_config, now, _request_times, _last_cleanup, attempt, wake, calls,
                   lastSleep, lastResp, result, requests, _data_processors, results,
                   llm_calls, batch_result, sessionVars, configVars>>

\* task t acquires the semaphore and calls _fetch_api_data
TaskEnter(t) ==
    /\ bpc = "gathering"
    /\ t \in BatchTasks
    /\ pc[t] = "waiting"
    /\ SemaphoreFree
    /\ semaphore' = semaphore - 1
    /\ FetchBegin(t)
    /\ UNCHANGED <<_data_processors, bpc, endpoints, max_concurrent, results, llm_calls,
                   batch_result, first_done, sessionVars, configVars>>

SemaphoreAfterReturn(t) == IF TaskOutcome(t).success THEN semaphore + 1 ELSE semaphore
\* leaving "async with semaphore" (135-160) releases it, by the return at
\* 145 as by the return at 156 in the except clause
SemaphoreAfterExit(t) == semaphore + 1

\* the fetch of task t has returned or raised: the task processes the data
\* or catches the failure, releases the semaphore and returns
TaskSettle(t) ==
    /\ bpc = "gathering"
    /\ t \in BatchTasks
    /\ pc[t] = "returned"
    /\ results' = [results EXCEPT ![t] = TaskOutcome(t)]
    /\ semaphore' = SemaphoreAfterExit(t)
    /\ pc' = [pc EXCEPT ![t] = "settled"]
    /\ attempt' = [attempt EXCEPT ![t] = 0]
    /\ wake' = [wake EXCEPT ![t] = 0]
    /\ calls' = [calls EXCEPT ![t] = 0]
    /\ lastSleep' = [lastSleep EXCEPT ![t] = NoSleep]
    /\ lastResp' = [lastResp EXCEPT ![t] = NoResp]
    /\ first_done' = IF first_done = 0 THEN t ELSE first_done
    /\ UNCHANGED <<api_config, now, _request_times, _last_cleanup, result, requests,
                   _data_processors, bpc, endpoints, max_concurrent, llm_calls,
                   batch_result, sessionVars, configVars>>

HistoryAfterQueryRecorded(history, prompt) ==
    Append(history, [role |-> "user", content |-> prompt])
\* self.conversation_history once _query_claude (402-416) is called with
\* <prompt>: the messages it sends are a list of its own
HistoryAfterQuery(history, prompt) == history

\* gather returns; the results are compiled and the language model is called
BatchAnalyze ==
    /\ bpc = "gathering"
    /\ AllSettled
    /\ llm_calls' = Append(llm_calls,
                           _create_enhanced_prompt(AnalysisPrompt, AsDict(combined_data)))
    /\ conversation_history' = HistoryAfterQuery(conversation_history, Last(llm_calls'))
    /\ bpc' = "llm"
    /\ UNCHANGED <<fetchVars, _data_processors, endpoints, max_concurrent, semaphore,
                   results, batch_result, first_done, spc, call, processed_data,
                   llm_messages, outcome, stages, turns, dangling, cleared_len, ops,
                   configVars>>

\* _query_claude returns: batch_process returns its result
BatchReturn ==
    /\ bpc = "llm"
    /\ batch_result' =
           [analysis |-> "analysis",
            successful_endpoints |-> Len(Successful(Gathered)),
            failed_endpoints |-> Len(Failed(Gathered)),
            failures |-> Failed(Gathered)]
    /\ bpc' = "done"
    /\ UNCHANGED <<fetchVars, _data_processors, endpoints, max_concurrent, semaphore,
                   results, llm_calls, first_done, sessionVars, configVars>>

\* _query_claude raises ClaudeAPIError, which batch_process lets through
BatchRaise ==
    /\ bpc = "llm"
    /\ bpc' = "raised"
    /\ UNCHANGED <<fetchVars, _data_processors, endpoints, max_concurrent, semaphore,
                   results, llm_calls, batch_result, first_done, sessionVars, configVars>>

\* the bodies the endpoints of a batch answer with
BatchBodies == {"b1", "b2"}

\* the outcomes drawn in a batch
BatchOutcomes ==
    {o \in Outcomes : /\ o.status \in {0, 401, 429}
                      /\ o.header = <<>>
                      /\ o.read # "broken"}
    \cup { [kind |-> "response", status |-> 200, header |-> <<>>, body |-> b, read |-> r] :
             b \in BatchBodies, r \in {"json", "text"} }

TaskRespond(t) == bpc = "gathering" /\ Respond(t, BatchOutcomes)

TaskWakeRateLimit(t) ==
    /\ bpc = "gathering"
    /\ requests < MaxRequests
    /\ WakeRateLimit(t)
    /\ UNCHANGED configVars

\* the configurations of the connector a batch runs on: without a quota
BatchConfigs ==
    {c \in APIConfig : /\ c.max_retries = 0
                       /\ c.retry_delay = 1
                       /\ c.rate_limit_requests = 0
                       /\ c.rate_limit_window = 2}
        \cup {NoConfig}

\* and with a quota of one request per window
QuotaBatchConfigs ==
    {c \in APIConfig : /\ c.max_retries = 0
                       /\ c.retry_delay = 1
                       /\ c.rate_limit_requests = 1
                       /\ c.rate_limit_window = 2}

InitBatch ==
    /\ InitConnector
    /\ api_config \in BatchConfigs
    /\ _data_processors \in ProcessorLists
    /\ InitBatchIdle
    /\ InitSessionIdle
    /\ InitConfigIdle

NextBatch ==
    \/ BatchCall
    \/ \E t \in Tasks : TaskEnter(t)
    \/ \E t \in Tasks : TaskRespond(t)
    \/ \E t \in Tasks : TaskSettle(t)
    \/ BatchAnalyze
    \/ BatchReturn
    \/ BatchRaise

\* A batch on a connector without a quota and without retries: no task
\* sleeps and the connector never reads the clock.
SpecBatch == InitBatch /\ [][NextBatch]_vars

\* what an endpoint answers when only the end of the batch is in question:
\* the request fails, or data come
FairBatchOutcomes ==
    {o \in BatchOutcomes : o.kind = "transport" \/ (o.body = "b1" /\ o.read = "json")}

FairTaskRespond(t) == bpc = "gathering" /\ Respond(t, FairBatchOutcomes)

InitBatchFair ==
    /\ InitConnector
    /\ api_config \in BatchConfigs
    /\ _data_processors = <<>>
    /\ InitBatchIdle
    /\ InitSessionIdle
    /\ InitConfigIdle

NextBatchFair ==
    \/ BatchCall
    \/ \E t \in Tasks : TaskEnter(t)
    \/ \E t \in Tasks : FairTaskRespond(t)
    \/ \E t \in Tasks : TaskSettle(t)
    \/ BatchAnalyze
    \/ BatchReturn
    \/ BatchRaise

\* A batch when the event loop keeps running every task that can run and
\* every request comes to an outcome.
SpecBatchFair ==
    /\ InitBatchFair
    /\ [][NextBatchFair]_vars
    /\ WF_vars(\E t \in Tasks : TaskEnter(t))
    /\ WF_vars(\E t \in Tasks : FairTaskRespond(t))
    /\ WF_vars(\E t \in Tasks : TaskSettle(t))
    /\ WF_vars(BatchAnalyze)
    /\ WF_vars(BatchReturn \/ BatchRaise)

InitBatchQuota ==
    /\ InitConnector
    /\ api_config \in QuotaBatchConfigs
    /\ _data_processors \in ProcessorLists
    /\ InitBatchIdle
    /\ InitSessionIdle
    /\ InitConfigIdle

\* the outcomes drawn in a batch on a connector with a quota: a transport
\* failure, which records no timestamp, or a parsed success response
QuotaBatchOutcomes ==
    {o \in BatchOutcomes : o.kind = "transport" \/ (o.body = "b1" /\ o.read = "json")}

TaskRespondQuota(t) == bpc = "gathering" /\ Respond(t, QuotaBatchOutcomes)

NextBatchQuota ==
    \/ Tick
    \/ SleepElapse
    \/ BatchCall
    \/ \E t \in Tasks : TaskEnter(t)
    \/ \E t \in Tasks : TaskRespondQuota(t)
    \/ \E t \in Tasks : TaskWakeRateLimit(t)
    \/ \E t \in Tasks : TaskSettle(t)
    \/ BatchAnalyze
    \/ BatchReturn
    \/ BatchRaise

\* A batch on a connector with a quota.
SpecBatchQuota == InitBatchQuota /\ [][NextBatchQuota]_vars

(***************************************************************************)
(* The public operations called one after another on one connector:        *)
(* set_data_processor (240-246), clear_conversation (248-250),             *)
(* stream_conversation (195-238) and query_with_api_data (62-114).         *)
(* A message content is the text with the data embedded into it.           *)
(***************************************************************************)
Prompts == {"p1", "p2"}
Responses == {"r1"}
Processors == {"f", "g", "strict"}

\* enhanced_prompt = prompt
Plain(text) == [text |-> text, embedded |-> <<>>, more |-> 0]

Message(role, content) == [role |-> role, content |-> content]

MessagesArgLatestOnly(history) == <<history[Len(history)]>>
\* messages=self.conversation_history
MessagesArg(history) == history

HistoryAppendPruning(history, message) ==
    IF Len(history) >= 2 THEN Append(Tail(history), message) ELSE Append(history, message)
\* self.conversation_history.append(message)
HistoryAppendCapped(history, message) ==
    IF Len(history) >= 3 THEN Append(Tail(history), message) ELSE Append(history, message)
HistoryPrepend(history, message) == <<message>> \o history
HistoryAppend(history, message) == Append(history, message)

ClearedAllButFirst(history) == IF history = <<>> THEN <<>> ELSE <<history[1]>>
\* self.conversation_history = []
ClearedHistory(history) == <<>>

\* raise <kind> out of the public operation in progress
Raises(kind) ==
    [op |-> call.op, kind |-> kind, conversation_length |-> 0, response |-> ""]

FetchOkAlways(r) == TRUE
\* _fetch_api_data returned instead of raising
FetchOk(r) == r.kind \in {"data", "fell_through"}

HistoryRolledBack(history) == SubSeq(history, 1, Len(history) - 1)
\* the history once ClaudeAPIError has left stream_conversation: the raise
\* at 432 passes 229-232 by and nothing undoes the append at 220
HistoryAfterModelFailure(history) == history

TransformAlwaysOk(r) == TRUE
\* _process_data returned instead of raising DataProcessingError
TransformOk(r) == r.ok

\* self._data_processors.append(processor)
set_data_processor ==
    /\ spc = "idle"
    /\ Len(_data_processors) < MaxProcessors
    /\ \E p \in Processors : _data_processors' = Append(_data_processors, p)
    /\ UNCHANGED <<fetchVars, batchVars, sessionVars, configVars>>

\* self.conversation_history = []
clear_conversation ==
    /\ spc = "idle"
    /\ ops < MaxOps
    /\ ops' = ops + 1
    /\ conversation_history' = ClearedHistory(conversation_history)
    /\ cleared_len' = Len(conversation_history)
    /\ call' = [op |-> "clear", prompt |-> "", endpoint |-> FALSE,
                llm_before |-> Len(llm_calls), history |-> conversation_history,
                     processors |-> _data_processors]
    /\ outcome' = [op |-> "clear", kind |-> "ok", conversation_length |-> 0, response |-> ""]
    /\ stages' = <<>>
    /\ turns' = <<>>
    /\ dangling' = 0
    /\ UNCHANGED <<fetchVars, _data_processors, batchVars, spc, processed_data, llm_messages>>
    /\ UNCHANGED configVars

\* stream_conversation appends the user message and awaits
\* _query_claude_with_history (219-226)
StreamAppendUser(content) ==
    /\ conversation_history' = HistoryAppend(conversation_history, Message("user", content))
    /\ llm_messages' = MessagesArg(conversation_history')
    /\ spc' = "stream_llm"
    /\ UNCHANGED <<outcome, turns, dangling, cleared_len>>

\* the operation in progress ends by raising <kind>
EndRaising(kind) ==
    /\ outcome' = Raises(kind)
    /\ spc' = "idle"

\* stream_conversation is called and runs up to its first suspension: the
\* request of its fetch when an endpoint is given, else the model call
StreamCall ==
    /\ spc = "idle"
    /\ ops < MaxOps
    /\ ops' = ops + 1
    /\ \E prompt \in Prompts, api_endpoint \in BOOLEAN :
         /\ call' = [op |-> "stream", prompt |-> prompt, endpoint |-> api_endpoint,
                     llm_before |-> Len(llm_calls), history |-> conversation_history,
                     processors |-> _data_processors]
         /\ processed_data' = NoProcessed
         /\ IF api_endpoint
            THEN /\ FetchBegin(Main)
                 /\ spc' = "stream_fetch"
                 /\ stages' = <<"fetch">>
                 /\ UNCHANGED <<conversation_history, llm_messages, outcome, turns,
                                dangling, cleared_len>>
            ELSE /\ StreamAppendUser(Plain(prompt))
                 /\ stages' = <<"llm">>
                 /\ UNCHANGED fetchVars
    /\ UNCHANGED <<_data_processors, batchVars>>
    /\ UNCHANGED configVars

\* the fetch of stream_conversation has returned or raised (215-226)
StreamFetched ==
    /\ spc = "stream_fetch"
    /\ pc[Main] = "returned"
    /\ IF FetchOk(result[Main])
       THEN LET processed == _process_data(result[Main].data) IN
            /\ processed_data' = processed
            /\ IF TransformOk(processed)
               THEN /\ StreamAppendUser(_create_enhanced_prompt(call.prompt, AsDict(processed.val)))
                    /\ stages' = stages \o <<"transform", "llm">>
               ELSE /\ EndRaising("DataProcessingError")
                    /\ stages' = Append(stages, "transform")
                    /\ UNCHANGED <<conversation_history, llm_messages, turns, dangling, cleared_len>>
       ELSE /\ EndRaising(result[Main].kind)
            /\ UNCHANGED <<conversation_history, llm_messages, processed_data, stages,
                           turns, dangling, cleared_len>>
    /\ UNCHANGED <<fetchVars, _data_processors, batchVars, call, ops>>
    /\ UNCHANGED configVars

\* _query_claude_with_history returns: the answer is appended (228-238)
StreamAnswered ==
    /\ spc = "stream_llm"
    /\ \E response \in Responses :
         /\ conversation_history' =
                HistoryAppend(conversation_history, Message("assistant", Plain(response)))
         /\ outcome' = [op |-> "stream", kind |-> "ok",
                        conversation_length |-> Len(conversation_history'),
                        response |-> response]
         /\ turns' = Append(turns, [prompt |-> call.prompt,
                                    user |-> llm_messages[Len(llm_messages)],
                                    assistant |-> response])
    /\ spc' = "idle"
    /\ UNCHANGED <<fetchVars, _data_processors, batchVars, call, processed_data,
                   llm_messages, stages, dangling, cleared_len, ops>>
    /\ UNCHANGED configVars

\* _query_claude_with_history raises ClaudeAPIError (430-432), which
\* stream_conversation lets through
StreamModelFails ==
    /\ spc = "stream_llm"
    /\ EndRaising("ClaudeAPIError")
    /\ conversation_history' = HistoryAfterModelFailure(conversation_history)
    /\ dangling' = dangling + 1
    /\ UNCHANGED <<fetchVars, _data_processors, batchVars, call, cleared_len,
                   processed_data, llm_messages, stages, turns, ops>>
    /\ UNCHANGED configVars

\* query_with_api_data is called and runs up to the request of its fetch
QueryCall ==
    /\ spc = "idle"
    /\ ops < MaxQueries
    /\ ops' = ops + 1
    /\ \E prompt \in Prompts :
         call' = [op |-> "query", prompt |-> prompt, endpoint |-> TRUE,
                  llm_before |-> Len(llm_calls), history |-> conversation_history,
                     processors |-> _data_processors]
    /\ processed_data' = NoProcessed
    /\ FetchBegin(Main)
    /\ spc' = "query_fetch"
    /\ stages' = <<"fetch">>
    /\ UNCHANGED <<_data_processors, batchVars, conversation_history, llm_messages,
                   outcome, turns, dangling, cleared_len>>
    /\ UNCHANGED configVars

\* the fetch of query_with_api_data has returned or raised (85-95, 112-114)
QueryFetched ==
    /\ spc = "query_fetch"
    /\ pc[Main] = "returned"
    /\ IF FetchOk(result[Main])
       THEN LET processed == _process_data(result[Main].data) IN
            /\ processed_data' = processed
            /\ IF TransformOk(processed)
               THEN /\ llm_calls' = Append(llm_calls,
                            _create_enhanced_prompt(call.prompt, AsDict(processed.val)))
                    /\ conversation_history' =
                           HistoryAfterQuery(conversation_history, Last(llm_calls'))
                    /\ spc' = "query_llm"
                    /\ stages' = stages \o <<"transform", "llm">>
                    /\ UNCHANGED outcome
               ELSE /\ EndRaising("DataProcessingError")
                    /\ stages' = Append(stages, "transform")
                    /\ UNCHANGED <<llm_calls, conversation_history>>
       ELSE /\ EndRaising(result[Main].kind)
            /\ UNCHANGED <<processed_data, stages, llm_calls, conversation_history>>
    /\ UNCHANGED <<fetchVars, _data_processors, bpc, endpoints, max_concurrent, semaphore,
                   results, batch_result, first_done, call,
                   llm_messages, turns, dangling, cleared_len, ops>>
    /\ UNCHANGED configVars

\* _query_claude returns: query_with_api_data returns its result (98-110)
QueryAnswered ==
    /\ spc = "query_llm"
    /\ \E response \in Responses :
         outcome' = [op |-> "query", kind |-> "ok", conversation_length |-> 0,
                     response |-> response]
    /\ spc' = "idle"
    /\ UNCHANGED <<fetchVars, _data_processors, batchVars, conversation_history, call,
                   processed_data, llm_messages, stages, turns, dangling, cleared_len, ops>>
    /\ UNCHANGED configVars

\* _query_claude raises ClaudeAPIError (414-416), re-raised at 112-114
QueryModelFails ==
    /\ spc = "query_llm"
    /\ EndRaising("ClaudeAPIError")
    /\ UNCHANGED <<fetchVars, _data_processors, batchVars, conversation_history, call,
                   processed_data, llm_messages, stages, turns, dangling, cleared_len, ops>>
    /\ UNCHANGED configVars

\* the outcomes drawn for the fetch of a public operation
SessionOutcomes ==
    {o \in Outcomes : o.status \in {0, 200, 401} /\ o.read # "broken"}

SessionRespond ==
    /\ spc \in {"stream_fetch", "query_fetch"}
    /\ Respond(Main, SessionOutcomes)

InitConversation ==
    /\ InitConnector
    /\ api_config \in BatchConfigs
    /\ _data_processors \in ProcessorLists
    /\ InitBatchIdle
    /\ InitSessionIdle
    /\ InitConfigIdle

NextConversation ==
    \/ clear_conversation
    \/ StreamCall
    \/ SessionRespond
    \/ StreamFetched
    \/ StreamAnswered
    \/ StreamModelFails

\* One caller holding a conversation on one connector (without quota and
\* retries: no task sleeps).
SpecConversation == InitConversation /\ [][NextConversation]_vars

InitQuery ==
    /\ InitConnector
    /\ api_config \in BatchConfigs
    /\ _data_processors = <<>>
    /\ InitBatchIdle
    /\ InitSessionIdle
    /\ InitConfigIdle

NextQuery ==
    \/ set_data_processor
    \/ QueryCall
    \/ SessionRespond
    \/ QueryFetched
    \/ QueryAnswered
    \/ QueryModelFails

\* One caller registering processors and making single queries on one connector.
SpecQuery == InitQuery /\ [][NextQuery]_vars

(***************************************************************************)
(* stream_conversation (195-238) and clear_conversation (248-250) called   *)
(* by several coroutines on one connector.  The calls of different         *)
(* coroutines overlap at the awaits of stream_conversation: the fetch      *)
(* (215) and the model call (226); caller c fetches as task c.             *)
(***************************************************************************)
\* what the API answers a coroutine's fetch with
OverlapOutcomes == {o \in SessionOutcomes : o.status = 0 \/ o.read = "json"}

InitOverlap ==
    /\ InitConnector
    /\ api_config \in BatchConfigs
    /\ _data_processors \in ProcessorLists
    /\ InitBatchIdle
    /\ InitSessionIdle
    /\ InitConfigIdle

\* the prompt coroutine c passes: neighbours pass different ones
PromptOf(c) == IF c % 2 = 1 THEN "p1" ELSE "p2"

\* caller c appends the user message and awaits _query_claude_with_history
CallerAppendUser(c, content) ==
    /\ conversation_history' = HistoryAppend(conversation_history, Message("user", content))
    /\ mine' = [mine EXCEPT ![c] = Append(@, Message("user", content))]
    /\ caller_pc' = [caller_pc EXCEPT ![c] = "llm"]

\* caller c calls stream_conversation, which runs up to its first suspension
CallerStream(c) ==
    /\ caller_pc[c] = "idle"
    /\ ops < MaxOverlapOps
    /\ ops' = ops + 1
    /\ \E api_endpoint \in BOOLEAN :
         /\ caller_call' = [caller_call EXCEPT ![c] =
                                [prompt |-> PromptOf(c), endpoint |-> api_endpoint]]
         /\ IF api_endpoint
            THEN /\ FetchBegin(c)
                 /\ caller_pc' = [caller_pc EXCEPT ![c] = "fetch"]
                 /\ UNCHANGED <<conversation_history, mine>>
            ELSE /\ CallerAppendUser(c, Plain(PromptOf(c)))
                 /\ UNCHANGED fetchVars
    /\ UNCHANGED <<_data_processors, batchVars, spc, call, processed_data, llm_messages,
                   outcome, stages, turns, dangling, cleared_len, cfg, fetch_args, sent,
                   prompt_data, prompt_out, clear_overlapped>>

\* the request of caller c's fetch comes to its outcome
CallerRespond(c) ==
    /\ c \in Callers
    /\ caller_pc[c] = "fetch"
    /\ Respond(c, OverlapOutcomes)

\* the fetch of caller c has returned or raised (215-226)
CallerFetched(c) ==
    /\ caller_pc[c] = "fetch"
    /\ pc[c] = "returned"
    /\ IF FetchOk(result[c])
       THEN LET processed == _process_data(result[c].data) IN
            IF TransformOk(processed)
            THEN CallerAppendUser(c, _create_enhanced_prompt(caller_call[c].prompt,
                                                            AsDict(processed.val)))
            ELSE /\ caller_pc' = [caller_pc EXCEPT ![c] = "idle"]
                 /\ UNCHANGED <<conversation_history, mine>>
       ELSE /\ caller_pc' = [caller_pc EXCEPT ![c] = "idle"]
            /\ UNCHANGED <<conversation_history, mine>>
    /\ UNCHANGED <<fetchVars, _data_processors, batchVars, spc, call, processed_data,
                   llm_messages, outcome, stages, turns, dangling, cleared_len, ops, cfg,
                   fetch_args, sent, prompt_data, prompt_out, caller_call,
                   clear_overlapped>>

\* the model call of caller c returns: the answer is appended (228-238)
CallerAnswered(c) ==
    /\ caller_pc[c] = "llm"
    /\ \E response \in Responses :
         /\ conversation_history' =
                HistoryAppend(conversation_history, Message("assistant", Plain(response)))
         /\ mine' = [mine EXCEPT ![c] = Append(@, Message("assistant", Plain(response)))]
    /\ caller_pc' = [caller_pc EXCEPT ![c] = "idle"]
    /\ UNCHANGED <<fetchVars, _data_processors, batchVars, spc, call, processed_data,
                   llm_messages, outcome, stages, turns, dangling, cleared_len, ops, cfg,
                   fetch_args, sent, prompt_data, prompt_out, caller_call,
                   clear_overlapped>>

\* the model call of caller c raises ClaudeAPIError (430-432)
CallerModelFails(c) ==
    /\ caller_pc[c] = "llm"
    /\ conversation_history' = HistoryAfterModelFailure(conversation_history)
    /\ caller_pc' = [caller_pc EXCEPT ![c] = "idle"]
    /\ UNCHANGED <<fetchVars, _data_processors, batchVars, spc, call, processed_data,
                   llm_messages, outcome, stages, turns, dangling, cleared_len, ops, cfg,
                   fetch_args, sent, prompt_data, prompt_out, caller_call, mine,
                   clear_overlapped>>

\* clear_conversation runs, whatever the calls in progress are waiting for
CallerClear ==
    /\ ops < MaxOverlapOps
    /\ ops' = ops + 1
    /\ conversation_history' = ClearedHistory(conversation_history)
    /\ mine' = [c \in Callers |-> <<>>]
    /\ cleared_len' = Len(conversation_history)
    /\ clear_overlapped' = \E c \in Callers : caller_pc[c] = "llm"
    /\ UNCHANGED <<fetchVars, _data_processors, batchVars, spc, call, processed_data,
                   llm_messages, outcome, stages, turns, dangling, cfg,
                   fetch_args, sent, prompt_data, prompt_out, caller_pc, caller_call>>

NextOverlap ==
    \/ CallerClear
    \/ \E c \in Callers : CallerStream(c)
    \/ \E c \in Callers : CallerRespond(c)
    \/ \E c \in Callers : CallerFetched(c)
    \/ \E c \in Callers : CallerAnswered(c)
    \/ \E c \in Callers : CallerModelFails(c)

\* Coroutines holding a conversation on one connector at the same time.
SpecOverlap == InitOverlap /\ [][NextOverlap]_vars

(***************************************************************************)
(* The three public operations and clear_conversation called one after     *)
(* another on one connector, each call awaited before the next is made.    *)
(***************************************************************************)
\* no batch_process call is in progress
NoBatchRunning == bpc \in {"none", "done", "raised"}

MixedStreamCall == NoBatchRunning /\ ops < MaxMixedOps /\ StreamCall
MixedQueryCall == NoBatchRunning /\ ops < MaxMixedOps /\ QueryCall
MixedClear == NoBatchRunning /\ ops < MaxMixedOps /\ clear_conversation
\* batch_process is called with max_concurrent = 1 between two other calls
MixedBatchCall == spc = "idle" /\ BatchCall /\ max_concurrent' = 1

MixedRespond ==
    /\ spc \in {"stream_fetch", "query_fetch"}
    /\ Respond(Main, OverlapOutcomes)

InitMixed ==
    /\ InitConnector
    /\ api_config \in BatchConfigs
    /\ _data_processors = <<>>
    /\ InitBatchIdle
    /\ InitSessionIdle
    /\ InitConfigIdle

NextMixed ==
    \/ MixedClear
    \/ MixedStreamCall
    \/ MixedQueryCall
    \/ MixedBatchCall
    \/ MixedRespond
    \/ StreamFetched
    \/ StreamAnswered
    \/ StreamModelFails
    \/ QueryFetched
    \/ QueryAnswered
    \/ QueryModelFails
    \/ \E t \in Tasks : TaskEnter(t)
    \/ \E t \in Tasks : FairTaskRespond(t)
    \/ \E t \in Tasks : TaskSettle(t)
    \/ BatchAnalyze
    \/ BatchReturn
    \/ BatchRaise

\* One caller using all the operations of one connector in turn.
SpecMixed == InitMixed /\ [][NextMixed]_vars

(***************************************************************************)
(* _create_enhanced_prompt applied to dicts and lists of up to MaxItems    *)
(* items.  The dicts have the keys ItemKeys[1..n], or one of their keys is *)
(* "...truncated" itself.                                                  *)
(***************************************************************************)
ItemKeys ==
    <<"k01", "k02", "k03", "k04", "k05", "k06", "k07", "k08", "k09", "k10",
      "k11", "k12", "k13", "k14", "k15", "k16", "k17", "k18", "k19", "k20",
      "k21", "k22", "k23", "k24", "k25", "k26", "k27", "k28", "k29", "k30">>

PromptInputs ==
    { [type |-> "list", items |-> [i \in 1..n |-> i]] : n \in 0..MaxItems }
    \cup { [type |-> "dict",
            items |-> [i \in 1..n |-> <<IF i = c THEN TruncatedKey ELSE ItemKeys[i], i>>]] :
             n \in 0..MaxItems, c \in {0, 1, DictLimit + 1} }

\* _create_enhanced_prompt(prompt, data) is called
PromptCall ==
    /\ prompt_data = NoData
    /\ \E prompt \in Prompts, data \in PromptInputs :
         /\ prompt_data' = data
         /\ prompt_out' = _create_enhanced_prompt(prompt, data)
    /\ UNCHANGED callerVars
    /\ UNCHANGED <<fetchVars, _data_processors, batchVars, sessionVars, cfg, fetch_args,
                   sent>>

InitPrompt ==
    /\ InitConnector
    /\ api_config = NoConfig
    /\ _data_processors = <<>>
    /\ InitBatchIdle
    /\ InitSessionIdle
    /\ InitConfigIdle

NextPrompt == PromptCall

SpecPrompt == InitPrompt /\ [][NextPrompt]_vars

(***************************************************************************)
(* APIConfig.__post_init__ (config.py 33-43) and the request parameters    *)
(* _fetch_api_data builds (connector.py 265-290).  "" stands for None.     *)
(***************************************************************************)
AuthTypes == {"bearer", "api_key", "basic", "custom"}
BaseUrls == {"", "https://api"}
ApiKeys == {"", "key"}
AuthHeaders == {"Authorization", "X-API-Key"}
AuthParams == {"", "apikey"}
Methods == {"GET", "get", "POST"}
CallerParams == {<<>>, << <<"q", "1">> >>, << <<"apikey", "mine">> >>}

\* the arguments of APIConfig(...)
ConfigInputs ==
    { [state |-> "none", base_url |-> u, auth_type |-> a, api_key |-> k,
       auth_header |-> h, auth_param |-> q, headers |-> <<>>] :
         u \in BaseUrls, a \in AuthTypes, k \in ApiKeys, h \in AuthHeaders,
         q \in AuthParams }

BaseUrlNeverMissing(base_url) == FALSE
\* if not self.base_url
BaseUrlMissing(base_url) == base_url = ""

\* f"Bearer {self.api_key}"
Bearer(api_key) == "Bearer " \o api_key

\* the config after __post_init__; state "ValueError" when it raises
__post_init__(c) ==
    IF BaseUrlMissing(c.base_url)
    THEN [c EXCEPT !.state = "ValueError"]
    ELSE [c EXCEPT !.state = "built",
                   !.headers =
                       IF c.api_key # ""
                       THEN IF c.auth_type = "bearer"
                            THEN DictSet(c.headers, c.auth_header, Bearer(c.api_key))
                            ELSE IF c.auth_type = "api_key" /\ c.auth_param = ""
                            THEN DictSet(c.headers, c.auth_header, c.api_key)
                            ELSE c.headers
                       ELSE c.headers]

\* method.upper()
Upper(method) == IF method = "get" THEN "GET" ELSE method

NoRequestParams == [has_params |-> FALSE, params |-> <<>>, has_json |-> FALSE, json |-> <<>>]

RequestParamsUnlessCallerParams(c, method, params) ==
    LET base == IF params # <<>>
                THEN IF Upper(method) = "GET"
                     THEN [NoRequestParams EXCEPT !.has_params = TRUE, !.params = params]
                     ELSE [NoRequestParams EXCEPT !.has_json = TRUE, !.json = params]
                ELSE NoRequestParams
    IN  IF c.auth_type = "api_key" /\ c.auth_param # "" /\ c.api_key # "" /\ ~base.has_params
        THEN [base EXCEPT !.has_params = TRUE,
                          !.params = DictSet(base.params, c.auth_param, c.api_key)]
        ELSE base
\* request_params without the timeout (268-284)
RequestParams(c, method, params) ==
    LET base == IF params # <<>>
                THEN IF Upper(method) = "GET"
                     THEN [NoRequestParams EXCEPT !.has_params = TRUE, !.params = params]
                     ELSE [NoRequestParams EXCEPT !.has_json = TRUE, !.json = params]
                ELSE NoRequestParams
    IN  IF c.auth_type = "api_key" /\ c.auth_param # "" /\ c.api_key # ""
        THEN [base EXCEPT !.has_params = TRUE,
                          !.params = DictSet(base.params, c.auth_param, c.api_key)]
        ELSE base

ParamsObjectShared(method, params) ==
    IF params # <<>> /\ Upper(method) = "GET" THEN "caller" ELSE "new"
\* the mapping request_params["params"] refers to once 271-283 have run: the
\* copy made at 273 for a GET with params, else the dict created at 282
\* (request_params["json"] is the caller's mapping itself, and is only read)
ParamsObject(method, params) ==
    IF params # <<>> /\ Upper(method) = "GET" THEN "copy" ELSE "new"

\* the caller's params mapping once request_params are prepared: the store
\* at 283 reaches it only if request_params["params"] is that mapping
CallerParamsAfter(c, method, params) ==
    IF /\ c.auth_type = "api_key" /\ c.auth_param # "" /\ c.api_key # ""
       /\ ParamsObject(method, params) = "caller"
    THEN DictSet(params, c.auth_param, c.api_key)
    ELSE params

\* the config of the connector built with a constructed APIConfig
ConnectorConfig ==
    [present |-> TRUE, max_retries |-> 1, retry_delay |-> 1,
     rate_limit_requests |-> 0, rate_limit_window |-> 2]

\* APIConfig(...) is called; when it returns, a connector is built with it
ConstructConfig ==
    /\ cfg.state = "none"
    /\ \E c \in ConfigInputs : cfg' = __post_init__(c)
    /\ api_config' = IF cfg'.state = "built" THEN ConnectorConfig ELSE api_config
    /\ UNCHANGED <<now, _request_times, _last_cleanup, pc, attempt, wake, calls, lastSleep,
                   lastResp, result, requests, _data_processors, batchVars, sessionVars,
                   fetch_args, sent, prompt_data, prompt_out, callerVars>>

\* the log of requests after a step of the fetch: a request is passed to
\* session.request whenever the fetch enters an iteration of its loop
SentAfterStep ==
    sent' = IF pc'[Main] = "request"
            THEN Append(sent, [method |-> fetch_args'.method, headers |-> cfg.headers,
                               attempt |-> attempt'[Main],
                               request_params |-> fetch_args'.request_params])
            ELSE sent

\* _fetch_api_data(endpoint, params, method) is called on the connector
ConfigFetchCall ==
    /\ cfg.state # "none"
    /\ pc[Main] \in {"idle", "returned"}
    /\ requests < MaxRequests
    /\ \E method \in Methods, params \in CallerParams :
         fetch_args' = [method |-> method, params |-> params,
                        request_params |-> RequestParams(cfg, method, params),
                        caller_params |-> CallerParamsAfter(cfg, method, params)]
    /\ FetchBegin(Main)
    /\ SentAfterStep
    /\ UNCHANGED <<_data_processors, batchVars, sessionVars, cfg, prompt_data, prompt_out,
                   callerVars>>

\* the sleep before a retry is over: the same request_params are sent again
ConfigWakeRetry ==
    /\ requests < MaxRequests
    /\ WakeRetry(Main)
    /\ UNCHANGED <<cfg, fetch_args, prompt_data, prompt_out, callerVars>>
    /\ SentAfterStep

\* the outcomes drawn for these fetches
ConfigOutcomes ==
    {o \in Outcomes : \/ o.status = 0
                      \/ o.status = 200 /\ o.read = "json"
                      \/ o.status = 429 /\ o.header = <<1>>}

ConfigRespond == Respond(Main, ConfigOutcomes)

InitConfig ==
    /\ InitConnector
    /\ api_config = NoConfig
    /\ _data_processors = <<>>
    /\ InitBatchIdle
    /\ InitSessionIdle
    /\ InitConfigIdle

NextConfig ==
    \/ ConstructConfig
    \/ ConfigFetchCall
    \/ ConfigRespond
    \/ SleepElapse
    \/ ConfigWakeRetry

\* A caller constructs an APIConfig and fetches through the connector.
SpecConfig == InitConfig /\ [][NextConfig]_vars

(***************************************************************************)
(* Properties of the fetch path, checked under SpecFetch.                  *)
(***************************************************************************)

\* the number of recorded timestamps in the window of length w that ends at
\* instant e, counted as the code counts them (t > e - w)
InWindow(e, w) ==
    Cardinality({j \in 1..Len(_request_times) :
                   _request_times[j] > e - w /\ _request_times[j] <= e})

\* C1: with a quota Q >= 1 over a window W, no trailing window ever holds
\* more than Q recorded request timestamps, whatever the responses, retries
\* included.  (The windows that can hold most end at a recorded timestamp.)
C1_QuotaNeverExceeded ==
    (api_config.present /\ api_config.rate_limit_requests >= 1) =>
        \A i \in 1..Len(_request_times) :
            InWindow(_request_times[i], api_config.rate_limit_window)
                <= api_config.rate_limit_requests

\* C2: one _fetch_api_data call makes at most max_retries + 1 HTTP attempts,
\* whatever mix of 429 responses and transport failures it meets.
C2_AtMostMaxRetriesPlusOneAttempts ==
    \A t \in Tasks : calls[t] <= api_config.max_retries + 1

\* a fetch with max_retries = 2 that met a transport failure and then a 429
\* on its third and last attempt
C2_Witness ==
    /\ api_config.max_retries = 2
    /\ calls[Main] = 3
    /\ lastSleep[Main].why = "backoff"
    /\ result[Main].kind = "RateLimitError"

C6_ExponentialBackoff ==
    \A t \in Tasks :
        (lastResp[t].kind = "transport" \/ lastResp[t].read = "broken") =>
            \/ /\ pc[t] = "backoff"
               /\ attempt[t] < api_config.max_retries
               /\ lastSleep[t].attempt = attempt[t]
               /\ lastSleep[t].dur = api_config.retry_delay * Pow2(attempt[t])
               /\ wake[t] - lastSleep[t].dur <= now
            \/ /\ pc[t] = "request"
               /\ lastSleep[t].why = "backoff"
               /\ attempt[t] = lastSleep[t].attempt + 1
               /\ lastSleep[t].dur = api_config.retry_delay * Pow2(attempt[t] - 1)
               /\ now >= wake[t]
            \/ /\ pc[t] = "returned"
               /\ attempt[t] = api_config.max_retries
               /\ result[t].kind = "APIConnectionError"
               /\ result[t].status = 0
               /\ lastSleep[t].why = "backoff" => lastSleep[t].attempt < attempt[t]

\* three transport failures with max_retries = 2 and retry_delay = 2: the
\* second wait was 2 * 2^1, the third failure ended the fetch
C6_Witness ==
    /\ api_config.max_retries = 2
    /\ api_config.retry_delay = 2
    /\ lastResp[Main].kind = "transport"
    /\ attempt[Main] = 2
    /\ lastSleep[Main] = [why |-> "backoff", dur |-> 4, attempt |-> 1]
    /\ result[Main].kind = "APIConnectionError"

FailedTasks ==
    {t \in BatchTasks :
        \/ result[t].kind # "data"
        \/ /\ \E i \in 1..Len(_data_processors) : _data_processors[i] = "strict"
           /\ result[t].data[1] = "raw_text"}

\* the exception a failed task caught
CaughtBy(t) == IF result[t].kind # "data" THEN result[t].kind ELSE "DataProcessingError"

\* the tasks between acquiring and releasing the semaphore
InFlight ==
    {t \in BatchTasks : pc[t] \in {"rl_sleep", "request", "sleep429", "backoff", "returned"}}

\* C8: a batch over N configurations of which k tasks fail (in fetch or in
\* transform, whatever the failure) does not abort: it returns
\* successful_endpoints = N - k and failed_endpoints = k, failures has one
\* entry per failed task with its endpoint and error text, and the prompt
\* sent to the language model holds the data of the N - k successes only.
C8_PartialFailureIsolation ==
    /\ bpc \in {"llm", "done", "raised"} =>
           /\ Len(llm_calls) = 1
           /\ Keys(llm_calls[1].embedded) =
                  {endpoints[t] : t \in BatchTasks \ FailedTasks}
    /\ bpc = "done" =>
           /\ batch_result.successful_endpoints = Len(endpoints) - Cardinality(FailedTasks)
           /\ batch_result.failed_endpoints = Cardinality(FailedTasks)
           /\ Len(batch_result.failures) = Cardinality(FailedTasks)
           /\ \A t \in FailedTasks :
                  \E i \in 1..Len(batch_result.failures) :
                      /\ batch_result.failures[i].endpoint = endpoints[t]
                      /\ batch_result.failures[i].error = CaughtBy(t)
                      /\ ~batch_result.failures[i].success

\* three different endpoints, the second refused by a processor: 2 and 1
C8_Witness ==
    /\ bpc = "done"
    /\ endpoints = <<"/a", "/b", "/c">>
    /\ FailedTasks = {2}
    /\ CaughtBy(2) = "DataProcessingError"
    /\ batch_result.successful_endpoints = 2
    /\ batch_result.failed_endpoints = 1
    /\ Keys(llm_calls[1].embedded) = {"/a", "/c"}

\* C9: with max_concurrent = M >= 1, at most M tasks are inside their
\* fetch+transform section at once, for any number of endpoints and any
\* interleaving (so a task enters only when fewer than M are inside).
C9_AtMostMaxConcurrentInFlight ==
    /\ Cardinality(InFlight) <= max_concurrent
    /\ bpc # "none" => semaphore = max_concurrent - Cardinality(InFlight)

\* two tasks in flight under max_concurrent = 2 while a third waits
C9_Witness ==
    /\ max_concurrent = 2
    /\ Cardinality(InFlight) = 2
    /\ \E t \in BatchTasks : pc[t] = "waiting"

\* C10: batch_process calls the language model exactly once per batch and
\* only after every task has settled; no task failure makes it call the
\* model or return while other tasks are in flight, also when all tasks fail.
C10_ModelCalledOnceAfterAllSettle ==
    /\ Len(llm_calls) <= 1
    /\ (Len(llm_calls) = 1 \/ bpc \in {"llm", "done", "raised"}) =>
           \A t \in BatchTasks : pc[t] = "settled"
    /\ bpc \in {"llm", "done", "raised"} => Len(llm_calls) = 1
    /\ bpc = "gathering" => Len(llm_calls) = 0

\* a batch of three tasks that all failed, the model called once
C10_Witness ==
    /\ bpc = "done"
    /\ Len(endpoints) = 3
    /\ FailedTasks = {1, 2, 3}
    /\ Len(llm_calls) = 1
    /\ llm_calls[1].embedded = <<>>

\* the failed tasks in the order of their configurations
FailedInOrder == SelectSeq([t \in BatchTasks |-> t], LAMBDA t : t \in FailedTasks)

\* the last configuration naming endpoint e whose task succeeded
LastTaskFor(e) ==
    CHOOSE t \in BatchTasks \ FailedTasks :
        /\ endpoints[t] = e
        /\ \A u \in BatchTasks \ FailedTasks : endpoints[u] = e => u <= t

\* C11: whatever the order in which the tasks complete, the combined
\* structure holds under endpoint e the transformed response of the fetch
\* made for e (of the last configuration naming e when several do), and the
\* failure entries name, in the order of the configurations, the endpoints
\* of the tasks that failed.
C11_ResultIndependentOfCompletionOrder ==
    /\ ((bpc = "gathering" /\ AllSettled) \/ bpc \in {"llm", "done", "raised"}) =>
           /\ Keys(combined_data) = {endpoints[t] : t \in BatchTasks \ FailedTasks}
           /\ \A i \in 1..Len(combined_data) :
                  combined_data[i][2] =
                      _process_data(result[LastTaskFor(combined_data[i][1])].data).val
           /\ bpc # "gathering" => llm_calls[1].embedded = combined_data
    /\ bpc = "done" =>
           /\ Len(batch_result.failures) = Len(FailedInOrder)
           /\ \A i \in 1..Len(FailedInOrder) :
                  /\ batch_result.failures[i].endpoint = endpoints[FailedInOrder[i]]
                  /\ batch_result.failures[i].error = CaughtBy(FailedInOrder[i])

\* three tasks of which the third completed first: the first and the third
\* succeeded with different bodies, the second was refused with a 401
C11_Witness ==
    /\ bpc = "done"
    /\ endpoints = <<"/a", "/b", "/c">>
    /\ first_done = 3
    /\ _data_processors = <<"f", "strict">>
    /\ result[1].data = <<"b1">>
    /\ result[3].data = <<"b2">>
    /\ result[2].kind = "AuthenticationError"
    /\ llm_calls[1].embedded = << <<"/a", <<"b1", "f">> >>, <<"/c", <<"b2", "f">> >> >>
    /\ batch_result.failures[1].endpoint = "/b"

(***************************************************************************)
(* Properties of the conversation, checked under SpecConversation.         *)
(***************************************************************************)
\* C12: after n successful stream_conversation calls made one after another
\* on a fresh or just-cleared connector the history has exactly 2n messages,
\* user and assistant alternating from user, the messages being those of the
\* n turns in order (nothing is pruned), and the n-th call returned
\* conversation_length = 2n.
C12_HistoryGrowsByTwoPerTurn ==
    (spc = "idle" /\ dangling = 0) =>
        /\ Len(conversation_history) = 2 * Len(turns)
        /\ \A i \in 1..Len(turns) :
               /\ conversation_history[2 * i - 1].role = "user"
               /\ conversation_history[2 * i - 1].content.text = turns[i].prompt
               /\ conversation_history[2 * i - 1] = turns[i].user
               /\ conversation_history[2 * i].role = "assistant"
               /\ conversation_history[2 * i].content.text = turns[i].assistant
        /\ (outcome.op = "stream" /\ outcome.kind = "ok") =>
               outcome.conversation_length = 2 * Len(turns)

\* three successful turns in a row: six messages, the last call returned 6
C12_Witness ==
    /\ spc = "idle"
    /\ dangling = 0
    /\ Len(turns) = 3
    /\ Len(conversation_history) = 6
    /\ outcome.conversation_length = 6
    /\ turns[1].prompt # turns[2].prompt

\* C13: clear_conversation leaves the history empty whatever it held, and
\* the stream_conversation call that follows it, when it succeeds, leaves a
\* history of exactly [user, assistant] holding that turn only.
C13_ClearResetsHistory ==
    /\ call.op = "clear" => conversation_history = <<>>
    /\ (spc = "idle" /\ Len(turns) = 1 /\ dangling = 0) =>
           /\ Len(conversation_history) = 2
           /\ conversation_history[1] = turns[1].user
           /\ conversation_history[1].role = "user"
           /\ conversation_history[2] = Message("assistant", Plain(turns[1].assistant))

\* a history of three messages (a turn, then a user message whose answer
\* failed) was cleared and the next call succeeded
C13_Witness ==
    /\ cleared_len = 3
    /\ spc = "idle"
    /\ outcome.kind = "ok"
    /\ outcome.op = "stream"
    /\ Len(turns) = 1
    /\ Len(conversation_history) = 2

\* C14: the messages stream_conversation passes to the language model are
\* the whole history of that moment: every earlier message in order,
\* followed by the user message appended for this turn.
C14_ModelGetsWholeHistory ==
    (call.op = "stream" /\ (spc = "stream_llm" \/ (spc = "idle" /\ outcome.kind \in {"ok", "ClaudeAPIError"}))) =>
        /\ Len(llm_messages) = Len(call.history) + 1
        /\ SubSeq(llm_messages, 1, Len(call.history)) = call.history
        /\ llm_messages[Len(llm_messages)].role = "user"
        /\ llm_messages[Len(llm_messages)].content.text = call.prompt
        /\ spc = "stream_llm" => llm_messages = conversation_history

\* the model call of a second turn: three messages are passed
C14_Witness ==
    /\ spc = "stream_llm"
    /\ Len(turns) = 1
    /\ dangling = 0
    /\ Len(llm_messages) = 3
    /\ llm_messages[1].role = "user"
    /\ llm_messages[2].role = "assistant"

(***************************************************************************)
(* Properties of the transform and of query_with_api_data, checked under   *)
(* SpecQuery.                                                              *)
(***************************************************************************)
RECURSIVE InRegistrationOrder(_, _)
\* the last registered processor applied to what the ones before it gave
InRegistrationOrder(procs, raw) ==
    IF procs = <<>> THEN raw
    ELSE Apply(procs[Len(procs)],
               InRegistrationOrder(SubSeq(procs, 1, Len(procs) - 1), raw)).val

\* the fetch errors query_with_api_data can meet
FetchErrors == {"APIConnectionError", "AuthenticationError", "RateLimitError"}

\* the first processor of procs that raises on the raw-text fallback
FirstStrict(procs) ==
    CHOOSE k \in 1..Len(procs) :
        procs[k] = "strict" /\ \A j \in 1..(k - 1) : procs[j] # "strict"

\* C15: the registered processors are applied in registration order, each
\* to the output of the one before: with f then g registered the transform
\* of raw is g(f(raw)); with none registered it is raw itself.
C15_ProcessorsInRegistrationOrder ==
    (spc = "query_llm") =>
        /\ processed_data.ok
        /\ processed_data.invoked = call.processors
        /\ processed_data.val = InRegistrationOrder(call.processors, result[Main].data)
        /\ call.processors = <<>> => processed_data.val = result[Main].data
        /\ call.processors = <<"f", "g">> =>
               processed_data.val = Apply("g", Apply("f", result[Main].data).val).val

\* f was registered, then g: the data sent on is g(f(raw))
C15_Witness ==
    /\ spc = "query_llm"
    /\ _data_processors = <<"f", "g">>
    /\ result[Main].data = <<"b1">>
    /\ processed_data.val = <<"b1", "f", "g">>
    /\ llm_calls[Len(llm_calls)].embedded = <<"b1", "f", "g">>

\* C16: when the k-th registered processor raises, _process_data raises
\* DataProcessingError at once: no processor after the k-th is invoked and
\* neither the raw data nor a partly transformed value comes back; a
\* transform that went through met no raising processor.
C16_RaisingProcessorAbortsChain ==
    /\ (call.op = "query" /\ spc = "idle" /\ result[Main].kind = "data"
          /\ result[Main].data[1] = "raw_text"
          /\ \E k \in 1..Len(call.processors) : call.processors[k] = "strict") =>
           /\ outcome.kind = "DataProcessingError"
           /\ ~processed_data.ok
           /\ processed_data.val = <<>>
           /\ processed_data.invoked =
                  SubSeq(call.processors, 1, FirstStrict(call.processors))
           /\ Len(llm_calls) = call.llm_before
    /\ (call.op = "query" /\ outcome.kind = "DataProcessingError" /\ spc = "idle") =>
           /\ result[Main].data[1] = "raw_text"
           /\ \E k \in 1..Len(call.processors) : call.processors[k] = "strict"
    /\ spc = "query_llm" =>
           ~(/\ result[Main].data[1] = "raw_text"
             /\ \E k \in 1..Len(call.processors) : call.processors[k] = "strict")

\* strict, registered before f, raised on a raw-text response: f was not invoked
C16_Witness ==
    /\ call.op = "query"
    /\ spc = "idle"
    /\ call.processors = <<"strict", "f">>
    /\ outcome.kind = "DataProcessingError"
    /\ processed_data.invoked = <<"strict">>
    /\ result[Main].data = <<"raw_text", "b1">>

\* C17: query_with_api_data runs fetch, transform and the model call in that
\* order; a failure of a stage reaches the caller as that failure, and the
\* model is not called when the fetch or the transform failed.
C17_StagesInOrderFailuresPropagate ==
    call.op = "query" =>
        /\ \E n \in 1..3 : stages = SubSeq(<<"fetch", "transform", "llm">>, 1, n)
        /\ (spc = "query_fetch") =>
               (stages = <<"fetch">> /\ Len(llm_calls) = call.llm_before)
        /\ (spc = "query_llm") =>
               /\ stages = <<"fetch", "transform", "llm">>
               /\ result[Main].kind = "data"
               /\ processed_data.ok
               /\ Len(llm_calls) = call.llm_before + 1
        /\ (spc = "idle") =>
               /\ result[Main].kind \in FetchErrors =>
                      /\ outcome.kind = result[Main].kind
                      /\ stages = <<"fetch">>
                      /\ Len(llm_calls) = call.llm_before
               /\ (result[Main].kind = "data" /\ ~processed_data.ok) =>
                      /\ outcome.kind = "DataProcessingError"
                      /\ stages = <<"fetch", "transform">>
                      /\ Len(llm_calls) = call.llm_before
               /\ (result[Main].kind = "data" /\ processed_data.ok) =>
                      /\ outcome.kind \in {"ok", "ClaudeAPIError"}
                      /\ stages = <<"fetch", "transform", "llm">>
                      /\ Len(llm_calls) = call.llm_before + 1

\* a second query whose fetch met a 401 after a first one that went through:
\* AuthenticationError reached the caller and the model was not called again
C17_Witness ==
    /\ call.op = "query"
    /\ spc = "idle"
    /\ ops = 2
    /\ result[Main].kind = "AuthenticationError"
    /\ outcome.kind = "AuthenticationError"
    /\ Len(llm_calls) = 1
    /\ stages = <<"fetch">>

(***************************************************************************)
(* Properties of _create_enhanced_prompt, checked under SpecPrompt.        *)
(***************************************************************************)
\* C18: a dict of n > 20 items is rendered with exactly its first 20 keys
\* and a note of n - 20 more items (stored under "...truncated"), a list of
\* n > 10 elements with its first 10 and a note of n - 10 more items; at or
\* below the limit everything is rendered and no note is added.
C18_EmbeddedDataIsBounded ==
    LET items == prompt_data.items
        n == Len(items)
    IN  /\ (prompt_data.type = "dict" /\ n > 20) =>
               /\ Keys(prompt_out.embedded) \ {"...truncated"} =
                      {items[i][1] : i \in 1..20} \ {"...truncated"}
               /\ \E j \in 1..Len(prompt_out.embedded) :
                      prompt_out.embedded[j] = <<"...truncated", n - 20>>
               /\ \A i \in 1..20 :
                      items[i][1] # "...truncated" => prompt_out.embedded[i] = items[i]
               /\ Len(prompt_out.embedded) <= 21
               /\ prompt_out.more = 0
        /\ (prompt_data.type = "dict" /\ n <= 20) =>
               /\ prompt_out.embedded = items
               /\ prompt_out.more = 0
        /\ (prompt_data.type = "list" /\ n > 10) =>
               /\ prompt_out.embedded = SubSeq(items, 1, 10)
               /\ prompt_out.more = n - 10
        /\ (prompt_data.type = "list" /\ n <= 10) =>
               /\ prompt_out.embedded = items
               /\ prompt_out.more = 0

\* a dict of 25 keys: its first 20 keys and the note of 5 more items
C18_Witness ==
    /\ prompt_data.type = "dict"
    /\ Len(prompt_data.items) = 25
    /\ Len(prompt_out.embedded) = 21
    /\ prompt_out.embedded[20] = <<"k20", 20>>
    /\ prompt_out.embedded[21] = <<"...truncated", 5>>

(***************************************************************************)
(* Properties of the configuration, checked under SpecConfig.              *)
(***************************************************************************)
\* the key, raw or as a bearer token, is the value of header name in request r
KeyInHeader(r, name) ==
    \E j \in 1..Len(r.headers) :
        r.headers[j][1] = name /\ r.headers[j][2] \in {"key", "Bearer key"}

\* the headers that hold the key in request r
KeyHeaders(r) == {name \in Keys(r.headers) : KeyInHeader(r, name)}

\* the query parameters that hold the key in request r
KeyParams(r) ==
    {r.request_params.params[j][1] : j \in
        {i \in 1..Len(r.request_params.params) : r.request_params.params[i][2] = "key"}}

\* the key is somewhere in the JSON body of request r
KeyInBody(r) ==
    \E j \in 1..Len(r.request_params.json) : r.request_params.json[j][2] = "key"

\* C19: constructing an APIConfig with an empty base_url raises at
\* construction: no such config is ever built, no connector uses it, and
\* nothing is recorded for rate limiting or sent over HTTP for it.
C19_EmptyBaseUrlRejectedAtConstruction ==
    /\ cfg.state = "built" => cfg.base_url # ""
    /\ (cfg.state # "none" /\ cfg.base_url = "") =>
           /\ cfg.state = "ValueError"
           /\ ~api_config.present
           /\ sent = <<>>
           /\ _request_times = <<>>
           /\ requests = 0
           /\ \A t \in Tasks : pc[t] \in {"idle", "returned"}

\* APIConfig(base_url="") raised; a fetch tried afterwards sent nothing
C19_Witness ==
    /\ cfg.state = "ValueError"
    /\ cfg.base_url = ""
    /\ cfg.api_key = "key"
    /\ pc[Main] = "returned"
    /\ result[Main].kind = "APIConnectionError"
    /\ sent = <<>>

\* C20 as stated: with a credential configured, bearer puts "Bearer <key>"
\* in the Authorization header, api-key without a query parameter name puts
\* the raw key in the named header, api-key with a query parameter name puts
\* the key in the query parameters of every attempt and in no header.
C20_Original_BearerInAuthorizationHeader ==
    \A i \in 1..Len(sent) :
        cfg.api_key # "" =>
            /\ cfg.auth_type = "bearer" =>
                   <<"Authorization", "Bearer key">> \in
                       {sent[i].headers[j] : j \in 1..Len(sent[i].headers)}
            /\ (cfg.auth_type = "api_key" /\ cfg.auth_param = "") =>
                   sent[i].headers = << <<cfg.auth_header, "key">> >>
            /\ (cfg.auth_type = "api_key" /\ cfg.auth_param # "") =>
                   /\ KeyParams(sent[i]) = {cfg.auth_param}
                   /\ KeyHeaders(sent[i]) = {}

\* C20 amended: with a credential configured, every request of every
\* attempt carries it in exactly one place set by the scheme: bearer, as
\* "Bearer <key>" in the header named by auth_header (Authorization unless
\* configured otherwise); api-key without a query parameter name, raw in
\* that header; api-key with a query parameter name, in the query parameters
\* under that name and in no header, whatever the method and the caller's
\* params; the schemes basic and custom put it nowhere.
C20_CredentialInOnePlace ==
    \A i \in 1..Len(sent) :
        LET r == sent[i] IN
        /\ ~KeyInBody(r)
        /\ cfg.api_key = "" => (KeyHeaders(r) = {} /\ KeyParams(r) = {})
        /\ cfg.api_key # "" =>
            /\ cfg.auth_type = "bearer" =>
                   /\ r.headers = << <<cfg.auth_header, "Bearer key">> >>
                   /\ KeyParams(r) = {}
            /\ (cfg.auth_type = "api_key" /\ cfg.auth_param = "") =>
                   /\ r.headers = << <<cfg.auth_header, "key">> >>
                   /\ KeyParams(r) = {}
            /\ (cfg.auth_type = "api_key" /\ cfg.auth_param # "") =>
                   /\ r.request_params.has_params
                   /\ KeyParams(r) = {cfg.auth_param}
                   /\ r.headers = <<>>
            /\ cfg.auth_type \in {"basic", "custom"} =>
                   (r.headers = <<>> /\ KeyParams(r) = {})

\* the retry of a POST with caller params under the api-key scheme with a
\* query parameter name: the key is in the query of both attempts
C20_Witness ==
    /\ Len(sent) = 2
    /\ cfg.auth_type = "api_key"
    /\ cfg.auth_param = "apikey"
    /\ cfg.api_key = "key"
    /\ sent[2].attempt = 1
    /\ sent[2].method = "POST"
    /\ sent[2].request_params.has_json
    /\ sent[2].request_params.params = << <<"apikey", "key">> >>
    /\ sent[1].request_params = sent[2].request_params

(***************************************************************************)
(* Properties of the parsing of a success response, of the rate-limit      *)
(* check and of the retry loop.                                            *)
(***************************************************************************)
\* C21: a success response whose body does not parse as JSON ends the fetch
\* in that same attempt: no failure, no sleep, no further attempt; the fetch
\* returns {"raw_text": <body>}.
C21_UnparsableBodyReturnedAsRawText ==
    \A t \in Tasks :
        (lastResp[t].status = 200 /\ lastResp[t].read = "text") =>
            /\ pc[t] = "returned"
            /\ result[t].kind = "data"
            /\ result[t].data = <<"raw_text", lastResp[t].body>>
            /\ calls[t] = attempt[t] + 1
            /\ lastSleep[t].why \in {"sleep429", "backoff"} =>
                   lastSleep[t].attempt < attempt[t]

\* an unparsable body on the second attempt of a fetch with one more left
C21_Witness ==
    /\ lastResp[Main].status = 200
    /\ lastResp[Main].read = "text"
    /\ attempt[Main] = 1
    /\ api_config.max_retries = 2
    /\ result[Main].data = <<"raw_text", "b1">>

\* the step in which task t calls _fetch_api_data on a configured connector
\* and so runs _check_rate_limit
CheckStep(t) ==
    /\ api_config.present
    /\ pc[t] \in {"idle", "returned"}
    /\ pc'[t] # pc[t]

\* C22: without a configured quota the rate-limit check returns at once: the
\* fetch goes straight on to its first attempt, no sleep is taken, and the
\* recorded timestamps and the last-cleanup time stay as they were.
C22_NoQuotaCheckIsNoOp ==
    [][\A t \in Tasks :
          (CheckStep(t) /\ api_config.rate_limit_requests = 0) =>
              /\ pc'[t] = "request"
              /\ wake'[t] = wake[t]
              /\ lastSleep'[t] = NoSleep
              /\ _request_times' = _request_times
              /\ _last_cleanup' = _last_cleanup]_vars

\* a fetch begun without a quota more than 10 after construction, with a
\* recorded timestamp that a cleanup would have pruned still stored
C22_Witness ==
    /\ api_config.present
    /\ api_config.rate_limit_requests = 0
    /\ pc[Main] = "request"
    /\ attempt[Main] = 0
    /\ lastResp[Main] = NoResp
    /\ now - _last_cleanup > CleanupInterval
    /\ Len(_request_times) >= 1
    /\ _request_times[1] <= now - api_config.rate_limit_window

\* C23: the rate-limit check does not fail and always returns.  With fewer
\* than quota timestamps in the trailing window it returns without a sleep;
\* otherwise it sleeps once, for no longer than the window, and then returns
\* (the fetch goes on to its first attempt).
C23_CheckReturnsAfterAtMostOneSleep ==
    /\ [][\A t \in Tasks :
             (CheckStep(t) /\ api_config.rate_limit_requests >= 1) =>
                 LET count == Len(Recent(_request_times,
                                         now - api_config.rate_limit_window))
                 IN  IF count < api_config.rate_limit_requests
                     THEN /\ pc'[t] = "request"
                          /\ lastSleep'[t] = NoSleep
                     ELSE /\ pc'[t] = "rl_sleep"
                          /\ wake'[t] - now \in 1..api_config.rate_limit_window
                          /\ lastSleep'[t].dur = wake'[t] - now]_vars
    /\ [][\A t \in Tasks :
             (pc[t] = "rl_sleep" /\ pc'[t] # "rl_sleep") =>
                 (pc'[t] = "request" /\ attempt'[t] = 0)]_vars
    /\ \A t \in Tasks : (pc[t] = "rl_sleep") ~> (pc[t] = "request")

\* a fetch at its first attempt after the one sleep of its rate-limit check
C23_Witness ==
    /\ pc[Main] = "request"
    /\ attempt[Main] = 0
    /\ lastSleep[Main].why = "rl_sleep"
    /\ lastSleep[Main].dur <= api_config.rate_limit_window
    /\ now >= wake[Main]

\* C24: every HTTP attempt of a fetch, each retry after a 429 or a transport
\* failure included, comes after a rate-limit check of its own: a retry is
\* issued only once the check has let it through, that is with fewer than
\* quota timestamps in the trailing window.
C24_RetriesAreRateLimited ==
    [][\A t \in Tasks :
          (/\ api_config.rate_limit_requests >= 1
           /\ pc[t] \in {"sleep429", "backoff"}
           /\ pc'[t] = "request") =>
              Len(Recent(_request_times, now - api_config.rate_limit_window))
                  < api_config.rate_limit_requests]_vars

\* C25: a batch of N > Q tasks run with max_concurrent > Q on a connector
\* with quota Q over window W: the tasks check and record one at a time, so
\* that in no interleaving more than Q timestamps are recorded within one
\* window.
C25_ConcurrentTasksKeepQuota ==
    (/\ bpc # "none"
     /\ Len(endpoints) > api_config.rate_limit_requests
     /\ max_concurrent > api_config.rate_limit_requests) =>
        \A i \in 1..Len(_request_times) :
            InWindow(_request_times[i], api_config.rate_limit_window)
                <= api_config.rate_limit_requests

\* the indices of the recorded timestamps inside the trailing window
InTrailingWindow ==
    {j \in 1..Len(_request_times) :
        _request_times[j] > now - api_config.rate_limit_window}

\* C26: with quota or more timestamps in the trailing window the check waits
\* exactly max(0, oldest_in_window + window - now), oldest_in_window being
\* the earliest timestamp still inside the window, and then lets the request
\* go without counting again.
C26_WaitsUntilOldestLeavesWindow ==
    /\ [][\A t \in Tasks :
             (/\ CheckStep(t)
              /\ api_config.rate_limit_requests >= 1
              /\ Cardinality(InTrailingWindow) >= api_config.rate_limit_requests) =>
                 LET oldest_in_window ==
                         Earliest({_request_times[j] : j \in InTrailingWindow})
                     wait == oldest_in_window + api_config.rate_limit_window - now
                 IN  IF wait > 0
                     THEN /\ pc'[t] = "rl_sleep"
                          /\ wake'[t] = now + wait
                          /\ lastSleep'[t].dur = wait
                     ELSE pc'[t] = "request"]_vars
    /\ [][\A t \in Tasks :
             (pc[t] = "rl_sleep" /\ pc'[t] # "rl_sleep") =>
                 /\ now >= wake[t]
                 /\ pc'[t] = "request"
                 /\ _request_times' = _request_times
                 /\ _last_cleanup' = _last_cleanup
                 /\ wake'[t] = wake[t]]_vars

\* a first attempt issued right at the end of the wait although the window
\* then still holds quota timestamps
C26_Witness ==
    /\ api_config.rate_limit_requests >= 1
    /\ pc[Main] = "request"
    /\ attempt[Main] = 0
    /\ lastResp[Main] = NoResp
    /\ lastSleep[Main].why = "rl_sleep"
    /\ now = wake[Main]
    /\ Cardinality(InTrailingWindow) >= api_config.rate_limit_requests

\* C27: every HTTP attempt that is issued records exactly one timestamp,
\* whatever it ends in: a success, a 429, a 401, another status or a
\* transport failure.
C27_EveryAttemptRecordsOneTimestamp ==
    [][\A t \in Tasks :
          (pc[t] = "request" /\ pc'[t] # "request") =>
              Len(_request_times') = Len(_request_times) + 1]_vars

\* C28: timestamps older than now - window do not count in the decision of
\* the check, pruned or not; right after a cleanup pass every stored
\* timestamp lies within the trailing window; and no stale timestamp stays
\* stored more than the cleanup interval behind the clock.
C28_StaleTimestampsNeitherCountNorLinger ==
    /\ [][\A t \in Tasks :
             (CheckStep(t) /\ api_config.rate_limit_requests >= 1) =>
                 /\ (pc'[t] = "rl_sleep") <=>
                        (Cardinality(InTrailingWindow) >= api_config.rate_limit_requests)
                 /\ CleanupDue =>
                        /\ _last_cleanup' = now
                        /\ \A j \in 1..Len(_request_times') :
                               _request_times'[j] > now - api_config.rate_limit_window]_vars
    /\ [](api_config.rate_limit_requests >= 1 =>
             \A j \in 1..Len(_request_times) :
                 _request_times[j] > now - api_config.rate_limit_window - CleanupInterval)

\* an outcome after which the loop goes on: a 429, a transport failure, or a
\* body whose reading fails with a ClientError
Retryable(r) == r.kind = "transport" \/ r.status = 429 \/ r.read = "broken"

\* C29: the attempts of one fetch come strictly one after another.  A
\* further attempt starts only from the sleep that followed a retryable
\* outcome of the attempt before it, attempts then remaining, and only once
\* that sleep, begun when the outcome was met, is over; after a fetch has
\* ended (success, 401, other failure, attempts used up) the next request is
\* the first attempt of a new fetch.
C29_AttemptsStrictlySequential ==
    [][\A t \in Tasks :
          /\ (pc[t] = "request" /\ pc'[t] \in {"sleep429", "backoff"}) =>
                 /\ Retryable(lastResp'[t])
                 /\ attempt[t] < api_config.max_retries
                 /\ lastSleep'[t].attempt = attempt[t]
                 /\ wake'[t] = now + lastSleep'[t].dur
          /\ (calls[t] >= 1 /\ calls'[t] = calls[t] + 1) =>
                 /\ pc[t] \in {"sleep429", "backoff"}
                 /\ pc'[t] = "request"
                 /\ Retryable(lastResp[t])
                 /\ lastSleep[t].attempt = attempt[t]
                 /\ now >= wake[t]
                 /\ attempt'[t] = attempt[t] + 1
                 /\ attempt'[t] <= api_config.max_retries
          /\ (pc[t] = "returned" /\ pc'[t] = "request") =>
                 /\ attempt'[t] = 0
                 /\ calls'[t] = 1
                 /\ lastResp'[t] = NoResp]_vars

\* the third attempt of a fetch, begun after the backoff that followed the
\* failure of the second
C29_Witness ==
    /\ pc[Main] = "request"
    /\ attempt[Main] = 2
    /\ calls[Main] = 3
    /\ lastSleep[Main].why = "backoff"
    /\ lastSleep[Main].attempt = 1
    /\ lastSleep[Main].dur >= 2
    /\ now >= wake[Main]

\* the failures _fetch_api_data is to end in
TypedFailures == {"APIConnectionError", "AuthenticationError", "RateLimitError"}

\* C30: whatever max_retries >= 0 and whatever the server answers, a fetch
\* that has been begun comes to an end, and it ends in returned data or in
\* one of the typed failures; it does not leave the retry loop otherwise.
C30_FetchEndsInDataOrTypedFailure ==
    /\ \A t \in Tasks :
           (pc[t] \in {"rl_sleep", "request", "sleep429", "backoff"}) ~> (pc[t] = "returned")
    /\ [](\A t \in Tasks :
             pc[t] = "returned" => result[t].kind \in {"data"} \cup TypedFailures)


IsPrefix(s, t) == Len(s) <= Len(t) /\ SubSeq(t, 1, Len(s)) = s

RECURSIVE AppendedBy(_)
\* how many messages the callers in S appended since the history was last emptied
AppendedBy(S) ==
    IF S = {} THEN 0
    ELSE LET c == CHOOSE x \in S : TRUE IN Len(mine[c]) + AppendedBy(S \ {c})

RECURSIVE IsSubSeq(_, _)
IsSubSeq(s, t) ==
    IF s = <<>> THEN TRUE
    ELSE IF t = <<>> THEN FALSE
    ELSE IF Head(s) = Head(t) THEN IsSubSeq(Tail(s), Tail(t))
    ELSE IsSubSeq(s, Tail(t))

\* caller c's messages stand in the history in the order c appended them
InOrderOf(c) == IsSubSeq(mine[c], conversation_history)

\* C31: stream_conversation only ever appends to the history: a step of a
\* stream call leaves the earlier messages where they were, and when calls
\* of several coroutines overlap, every message each of them appended is in
\* the history (two overlapping calls that both succeed leave four).
C31_StreamOnlyAppends ==
    [][ /\ (caller_pc' # caller_pc => IsPrefix(conversation_history, conversation_history'))
        /\ Len(conversation_history') = AppendedBy(Callers)'
        /\ \A c \in Callers : InOrderOf(c)' ]_vars

\* two calls overlapped (both user messages first) and both succeeded
C31_Witness ==
    /\ \A c \in Callers : caller_pc[c] = "idle" /\ Len(mine[c]) = 2
    /\ Len(conversation_history) = 2 * MaxCallers
    /\ \A i \in 1..MaxCallers : conversation_history[i].role = "user"
    /\ \A i \in (MaxCallers + 1)..(2 * MaxCallers) : conversation_history[i].role = "assistant"

InStages(x) == \E i \in 1..Len(stages) : stages[i] = x

\* a stream_conversation call with an endpoint is over and its fetch raised
\* or one of its processors did
StreamFetchOrTransformFailed ==
    /\ spc = "idle"
    /\ call.op = "stream"
    /\ call.endpoint
    /\ \/ result[Main].kind \notin {"data", "fell_through"}
       \/ ~processed_data.ok

\* C32: in stream_conversation with an endpoint the user message is appended
\* only once fetch and transform are through: while the fetch is awaited the
\* history is the one the call found, and when the fetch or the transform
\* fails, that failure is what the call raises, the language model was not
\* called, and the history is exactly the one the call found.
C32_FailedFetchLeavesHistory ==
    /\ spc = "stream_fetch" => conversation_history = call.history /\ ~InStages("llm")
    /\ StreamFetchOrTransformFailed =>
          /\ outcome.op = "stream"
          /\ outcome.kind = IF result[Main].kind \in {"data", "fell_through"}
                            THEN "DataProcessingError" ELSE result[Main].kind
          /\ ~InStages("llm")
          /\ conversation_history = call.history

\* a second turn's fetch failed, a second turn's processor failed
C32_Witness ==
    /\ StreamFetchOrTransformFailed
    /\ Len(conversation_history) = 2
    /\ outcome.kind \in {"APIConnectionError", "DataProcessingError"}

\* C33: when the model call of stream_conversation fails, ClaudeAPIError is
\* what the call raises, no assistant message is appended and the user
\* message of the turn stays: the history is the one the call found plus
\* that one user message, and the next successful call puts a second user
\* message right behind it.
C33_ModelFailureKeepsUserMessage ==
    [][ /\ (spc = "stream_llm" /\ spc' = "idle" /\ outcome'.kind # "ok") =>
              /\ outcome' = [op |-> "stream", kind |-> "ClaudeAPIError",
                             conversation_length |-> 0, response |-> ""]
              /\ conversation_history' = conversation_history
              /\ Len(conversation_history') = Len(call.history) + 1
              /\ IsPrefix(call.history, conversation_history')
              /\ Last(conversation_history').role = "user"
        /\ (spc # "stream_llm" /\ spc' = "stream_llm" /\ outcome.op = "stream"
               /\ outcome.kind = "ClaudeAPIError") =>
              /\ Len(conversation_history') >= 2
              /\ conversation_history'[Len(conversation_history') - 1].role = "user"
              /\ conversation_history'[Len(conversation_history')].role = "user" ]_vars

\* a model failure was followed by a successful call: user, user, assistant
C33_Witness ==
    /\ spc = "idle"
    /\ outcome.kind = "ok"
    /\ outcome.op = "stream"
    /\ Len(conversation_history) = 3
    /\ conversation_history[1].role = "user"
    /\ conversation_history[2].role = "user"
    /\ conversation_history[3].role = "assistant"

\* C34 as stated: a non-empty history begins with a user message in every
\* reachable state, also when clear_conversation runs while a
\* stream_conversation call is suspended in its model call.
C34_Original_HistoryBeginsWithUser ==
    conversation_history # <<>> => conversation_history[1].role = "user"

\* C34, amended: a non-empty history begins with a user message unless the
\* latest clear_conversation ran while a stream_conversation call was
\* suspended in its model call (then the answer of that call is appended to
\* the emptied history and stands first).
C34_HistoryBeginsWithUserUnlessClearedInTurn ==
    (conversation_history # <<>> /\ ~clear_overlapped) =>
        conversation_history[1].role = "user"

\* a clear emptied a non-empty history while no call awaited the model, and
\* calls went on afterwards
C34_Witness ==
    /\ cleared_len > 0
    /\ ~clear_overlapped
    /\ conversation_history # <<>>
    /\ \E c \in Callers : caller_pc[c] = "llm"

Waiting == {t \in BatchTasks : pc[t] = "waiting"}

\* C35: with max_concurrent >= 1, a batch whose fetches all settle comes to
\* its end (batch_process returns, or raises what the model call raised):
\* every task gives its slot back, on the path that returns data as on the
\* path that catches a failure, so the free slots are always max_concurrent
\* less the tasks inside, and no task waits for a slot forever.
C35_BatchCompletes ==
    /\ [](bpc = "gathering" => semaphore = max_concurrent - Cardinality(InFlight))
    /\ (bpc = "gathering" /\ max_concurrent >= 1) ~> (bpc \in {"done", "raised"})
    /\ \A t \in Tasks : (bpc = "gathering" /\ t \in Waiting) ~> (t \notin Waiting)

\* more tasks than slots: one waited while a failed and a successful task
\* held and released the slot, and the batch came to its end
C35_Witness ==
    /\ bpc = "done"
    /\ Len(endpoints) > max_concurrent
    /\ semaphore = max_concurrent
    /\ \E t, u \in BatchTasks : results[t].success /\ ~results[u].success

\* C36: for every list of configurations, lists naming one endpoint more
\* than once included, the combined structure sent to the language model
\* holds one entry per successful task: its entries are as many as
\* successful_endpoints, and successful_endpoints + failed_endpoints is the
\* number of configurations.
C36_OneEntryPerSuccessfulTask ==
    /\ bpc \in {"llm", "done"} =>
          /\ Len(combined_data) = Len(Successful(Gathered))
          /\ Len(Last(llm_calls).embedded) = Len(Successful(Gathered))
    /\ bpc = "done" =>
          /\ Len(combined_data) = batch_result.successful_endpoints
          /\ batch_result.successful_endpoints + batch_result.failed_endpoints
                = Len(endpoints)

\* C37: a fetch never modifies the mapping the caller passed as params:
\* while the fetch runs, across its retries, and after it has returned or
\* failed, the caller's mapping holds exactly the entries it was passed
\* with, also when an API key is injected as a query parameter.
C37_CallerParamsUntouched ==
    /\ fetch_args.caller_params = fetch_args.params
    /\ (pc[Main] \in {"request", "backoff", "sleep429", "returned"}
          /\ cfg.state = "built" /\ cfg.auth_type = "api_key"
          /\ cfg.auth_param # "" /\ cfg.api_key # "") =>
            /\ cfg.auth_param \in Keys(fetch_args.request_params.params)
            /\ (cfg.auth_param \notin Keys(fetch_args.params) =>
                    cfg.auth_param \notin Keys(fetch_args.caller_params))

\* a GET with caller params and an injected key has been retried and is over
C37_Witness ==
    /\ pc[Main] = "returned"
    /\ attempt[Main] >= 1
    /\ Upper(fetch_args.method) = "GET"
    /\ fetch_args.params # <<>>
    /\ cfg.auth_type = "api_key" /\ cfg.auth_param # "" /\ cfg.api_key # ""
    /\ cfg.auth_param \notin Keys(fetch_args.params)
    /\ cfg.auth_param \in Keys(fetch_args.request_params.params)

\* C38: on a connector built without an API configuration every fetch fails
\* with APIConnectionError before any rate-limit check, timestamp or HTTP
\* attempt: no request is ever issued, nothing is recorded, the clock is not
\* read and no fetch waits.  stream_conversation without an endpoint makes
\* no fetch and works: the prompt itself is stored as the user message.
C38_NoConfigFetchFailsAtOnce ==
    ~api_config.present =>
        /\ requests = 0
        /\ _request_times = <<>>
        /\ _last_cleanup = 0
        /\ \A t \in Tasks :
              /\ pc[t] \in {"idle", "returned"}
              /\ calls[t] = 0
              /\ lastSleep[t] = NoSleep
              /\ pc[t] = "returned" => result[t].kind = "APIConnectionError"
        /\ (spc = "idle" /\ call.op = "stream" /\ call.endpoint) =>
              /\ outcome.kind = "APIConnectionError"
              /\ conversation_history = call.history
        /\ (spc = "stream_llm" /\ ~call.endpoint) =>
              /\ stages = <<"llm">>
              /\ Last(conversation_history) = Message("user", Plain(call.prompt))
        /\ (spc = "idle" /\ call.op = "stream" /\ ~call.endpoint /\ outcome.kind = "ok") =>
              /\ Len(conversation_history) = Len(call.history) + 2
              /\ conversation_history[Len(call.history) + 1]
                    = Message("user", Plain(call.prompt))

\* without a configuration: a call with an endpoint failed, then a call
\* without one was answered
C38_Witness ==
    /\ ~api_config.present
    /\ pc[Main] = "returned"
    /\ result[Main].kind = "APIConnectionError"
    /\ spc = "idle"
    /\ call.op = "stream"
    /\ ~call.endpoint
    /\ outcome.kind = "ok"
    /\ Len(conversation_history) = 2

\* a step of query_with_api_data
QueryStep == spc \in {"query_fetch", "query_llm"} \/ spc' \in {"query_fetch", "query_llm"}
\* a step of batch_process
BatchStep == bpc \in {"gathering", "llm"} \/ bpc' \in {"gathering", "llm"}
\* a step of stream_conversation
StreamStep == spc \in {"stream_fetch", "stream_llm"} \/ spc' \in {"stream_fetch", "stream_llm"}
\* clear_conversation
ClearStep == ops' = ops + 1 /\ call'.op = "clear"

\* C39: query_with_api_data and batch_process leave the conversation
\* history unchanged, when they return as when they raise: no step of
\* theirs changes it, a query ends with the history it found, and every
\* step that changes the history is one of stream_conversation or
\* clear_conversation.
C39_QueryAndBatchLeaveHistory ==
    [][ /\ (QueryStep \/ BatchStep) => conversation_history' = conversation_history
        /\ (QueryStep /\ spc' = "idle") => conversation_history' = call.history
        /\ conversation_history' # conversation_history => (StreamStep \/ ClearStep) ]_vars

\* a conversation of one turn, then a batch and a query that both went
\* through to the model, and the turn is still all there is
C39_Witness ==
    /\ bpc = "done"
    /\ batch_result.successful_endpoints >= 1
    /\ spc = "idle"
    /\ call.op = "query"
    /\ outcome.kind = "ok"
    /\ Len(conversation_history) = 2
    /\ Len(llm_calls) = 2
====
